---- MODULE Spec2Model ----
(***************************************************************************)
(* Model of the heuristic extraction engine of fantasy-znldn:             *)
(*   src/demo_scraper.py  (match report  -> MatchData)                     *)
(*   src/scraper.py       (competition page -> teams/standings/stats)      *)
(*                                                                         *)
(* Text is modelled as a sequence of one-character strings, so that the    *)
(* regular expressions, strip/split and int() of the source are computed   *)
(* character by character.  None is the Python None.                       *)
(***************************************************************************)
EXTENDS Integers, Sequences, FiniteSets, TLC

VARIABLES
    pc,           \* position inside scrape_match / the running extractor
    inp,          \* the structured content the document was rendered from
    soup,         \* the parsed match-report document
    header,       \* dict returned by _parse_header_info
    venue, city, date_time,   \* tuple returned by _parse_datetime_and_venue
    candidates,   \* _parse_goals_block: the strings still to scan
    last_name,    \* _parse_goals_block: the scorer slot
    goals,        \* list of GoalEvent
    team_blocks,  \* list returned by _iterate_team_blocks
    lineups,      \* ordered dict team -> players
    result,       \* MatchData returned by scrape_match, or the raised error
    todo,         \* CompetitionScraper: what the running loop still has to visit
    standings,    \* parse_standings: the list being built
    stats,        \* parse_player_stats: the dict being built
    env,          \* what a run reads besides the document: the interpreter's
                  \* string hash seed, the year the date parser was created
                  \* in, and today's date
    runs,         \* extractor name -> the values its calls have returned so far
    teams,        \* parse_teams: the dict being built
    fixtures,     \* parse_fixtures: the list being built
    players       \* _parse_players_from_team_block: the list being built

\* the variables of the competition scraper
comp_vars == <<todo, standings, stats, env, runs, teams, fixtures, players>>

vars == <<pc, inp, soup, header, venue, city, date_time, candidates, last_name,
          goals, team_blocks, lineups, result, todo, standings, stats,
          env, runs, teams, fixtures, players>>

\* Python None where a string is optional, and an optional integer n.
\* (No string of the model equals None: its characters are single letters.)
None == <<"None">>

IntVal(n) == <<"int", n>>

\* a local of scrape_match that has not been assigned yet
Unset == <<"unset">>

(***************************************************************************)
(* Characters and Python string primitives                                 *)
(***************************************************************************)
Digits == <<"0", "1", "2", "3", "4", "5", "6", "7", "8", "9">>

IsDigit(c) == \E i \in 1..10 : Digits[i] = c

DigitVal(c) == (CHOOSE i \in 1..10 : Digits[i] = c) - 1

\* \s of the re module, restricted to the two whitespace characters used here
IsSpace(c) == c \in {" ", "\n"}

\* . of the re module (no DOTALL): anything but a newline
IsDot(c) == c # "\n"

\* F(x) with x evaluated once
Apply(F(_), x) == CHOOSE r \in {F(v) : v \in {x}} : TRUE

Slice(s, i, j) == [k \in 1..(j - i + 1) |-> s[i + k - 1]]

AllIn(s, i, j, P(_)) == \A k \in i..j : P(s[k])

\* str.strip(): leading and trailing whitespace removed
Strip(s) ==
    IF \A k \in 1..Len(s) : IsSpace(s[k]) THEN <<>>
    ELSE LET lo == CHOOSE i \in 1..Len(s) :
                     ~IsSpace(s[i]) /\ \A k \in 1..(i - 1) : IsSpace(s[k])
             hi == CHOOSE j \in 1..Len(s) :
                     ~IsSpace(s[j]) /\ \A k \in (j + 1)..Len(s) : IsSpace(s[k])
         IN  Slice(s, lo, hi)

\* str.rstrip(", "): trailing commas and blanks removed
RStripCommaSpace(s) ==
    IF \A k \in 1..Len(s) : s[k] \in {",", " "} THEN <<>>
    ELSE LET hi == CHOOSE j \in 1..Len(s) :
                     s[j] \notin {",", " "}
                     /\ \A k \in (j + 1)..Len(s) : s[k] \in {",", " "}
         IN  Slice(s, 1, hi)

\* end of the maximal run of characters satisfying P that starts at i
\* (i - 1 when the run is empty)
RunEnd(s, i, P(_)) ==
    IF i > Len(s) THEN i - 1
    ELSE CHOOSE j \in (i - 1)..Len(s) :
            /\ AllIn(s, i, j, P)
            /\ (j = Len(s) \/ ~P(s[j + 1]))

\* int() of a string of decimal digits
RECURSIVE ToInt(_)
ToInt(ds) ==
    IF Len(ds) = 0 THEN 0
    ELSE 10 * ToInt(Slice(ds, 1, Len(ds) - 1)) + DigitVal(ds[Len(ds)])

\* str.isdigit()
IsDigitStr(s) == Len(s) > 0 /\ AllIn(s, 1, Len(s), IsDigit)

RECURSIVE Concat(_)
Concat(ss) == IF Len(ss) = 0 THEN <<>> ELSE Head(ss) \o Concat(Tail(ss))

RECURSIVE JoinWith(_, _)
JoinWith(ss, sep) ==
    IF Len(ss) = 0 THEN <<>>
    ELSE IF Len(ss) = 1 THEN ss[1]
    ELSE ss[1] \o sep \o JoinWith(Tail(ss), sep)

\* str.split(): the maximal runs of non-whitespace characters, in order
RECURSIVE SplitWs(_)
SplitWs(s) ==
    LET t == Strip(s)
    IN  IF Len(t) = 0 THEN <<>>
        ELSE LET e == RunEnd(t, 1, LAMBDA c : ~IsSpace(c))
             IN  <<Slice(t, 1, e)>> \o SplitWs(Slice(t, e + 1, Len(t)))

\* str.split(","): the pieces between commas (always at least one piece)
RECURSIVE SplitComma(_)
SplitComma(s) ==
    IF \A k \in 1..Len(s) : s[k] # "," THEN <<s>>
    ELSE LET e == RunEnd(s, 1, LAMBDA c : c # ",")
         IN  <<Slice(s, 1, e)>> \o SplitComma(Slice(s, e + 2, Len(s)))

\* Tag.get_text(" ", strip=True): the stripped, non-empty strings of the tag
\* joined with one blank
GetText(frags) ==
    JoinWith(SelectSeq([i \in 1..Len(frags) |-> Strip(frags[i])],
                       LAMBDA f : Len(f) > 0), <<" ">>)

(***************************************************************************)
(* _parse_header_info  (demo_scraper.py 59-79)                             *)
(***************************************************************************)
\* " ".join(h1.get_text(" ", strip=True).split())
HeaderTitle(h1) == JoinWith(SplitWs(GetText(h1)), <<" ">>)

\* The part of the title regex after the second group, tried with the second
\* group ending at d:   \s+(\d+):(\d+)   followed by `rest`.
\* \s+ and \d+ are greedy and are followed by a character outside their class,
\* so each takes its maximal run.
ScoreAt(t, d) ==
    LET e == RunEnd(t, d + 1, IsSpace)
        f == RunEnd(t, e + 1, IsDigit)
        g == RunEnd(t, f + 2, IsDigit)
    IN  IF /\ e >= d + 1
           /\ f >= e + 1
           /\ f + 1 <= Len(t) /\ t[f + 1] = ":"
           /\ g >= f + 2
        THEN [ok |-> TRUE, e |-> e, f |-> f, g |-> g]
        ELSE [ok |-> FALSE, e |-> 0, f |-> 0, g |-> 0]

\* ,\s*(.+)  after the away score ending at g: a comma, then at least one
\* character that . accepts once the greedy \s* has given back what it must
CompetitionAt(t, g) ==
    /\ g + 1 <= Len(t) /\ t[g + 1] = ","
    /\ \E h \in (g + 1)..(Len(t) - 1) :
          AllIn(t, g + 2, h, IsSpace) /\ IsDot(t[h + 1])

\* start of group 5 and its greedy end
CompetitionSpan(t, g) ==
    LET h == CHOOSE x \in (g + 1)..(Len(t) - 1) :
                /\ AllIn(t, g + 2, x, IsSpace) /\ IsDot(t[x + 1])
                /\ \A y \in (x + 1)..(Len(t) - 1) :
                      ~(AllIn(t, g + 2, y, IsSpace) /\ IsDot(t[y + 1]))
    IN  <<h + 1, RunEnd(t, h + 1, IsDot)>>

\* what follows group 2 when it ends at d; `full` is the title regex of
\* _parse_header_info, otherwise the shorter one of _iterate_team_blocks
TailFits(t, d, full) ==
    /\ ScoreAt(t, d).ok
    /\ full => CompetitionAt(t, ScoreAt(t, d).g)

\* the lazy group 2 = t[c+1..d]: the least d from `d` on that lets the rest match
RECURSIVE FirstD(_, _, _, _)
FirstD(t, c, d, full) ==
    IF d > Len(t) \/ ~IsDot(t[d]) THEN 0
    ELSE IF TailFits(t, d, full) THEN d
    ELSE FirstD(t, c, d + 1, full)

\* the greedy \s* after the hyphen at position dash ends at c: the greatest c,
\* from `c` down, for which group 2 can be placed; -1 if there is none
RECURSIVE LastC(_, _, _, _)
LastC(t, dash, c, full) ==
    IF c < dash THEN -1
    ELSE IF FirstD(t, c, c + 1, full) > 0 THEN c
    ELSE LastC(t, dash, c - 1, full)

\* position of the hyphen when group 1 = t[1..a], or 0: the greedy \s* takes
\* the whole run of whitespace, since the hyphen is not whitespace
DashAfter(t, a) ==
    LET b == RunEnd(t, a + 1, IsSpace)
    IN  IF b + 1 <= Len(t) /\ t[b + 1] = "-" THEN b + 1 ELSE 0

GroupsAt(t, a, full) ==
    LET dash == DashAfter(t, a)
    IN  IF dash = 0 THEN -1
        ELSE LastC(t, dash, RunEnd(t, dash + 1, IsSpace), full)

\* the lazy group 1 = t[1..a]: the least a from `a` on that lets the rest match
RECURSIVE FirstA(_, _, _)
FirstA(t, a, full) ==
    IF a > Len(t) \/ ~IsDot(t[a]) THEN 0
    ELSE IF GroupsAt(t, a, full) >= 0 THEN a
    ELSE FirstA(t, a + 1, full)

\* the five groups, given where they lie
TitleGroups(t, a, c, d, sc, cs) ==
    <<Slice(t, 1, a), Slice(t, c + 1, d), Slice(t, sc.e + 1, sc.f),
      Slice(t, sc.f + 2, sc.g), Slice(t, cs[1], cs[2])>>

TitleFromD(t, a, c, d) ==
    TitleGroups(t, a, c, d, ScoreAt(t, d), CompetitionSpan(t, ScoreAt(t, d).g))

TitleFromC(t, a, c) == TitleFromD(t, a, c, FirstD(t, c, c + 1, TRUE))

TitleFromA(t, a) ==
    IF a = 0 THEN <<>> ELSE TitleFromC(t, a, GroupsAt(t, a, TRUE))

\* re.match(r"(.+?)\s*-\s*(.+?)\s+(\d+):(\d+),\s*(.+)", title): the five
\* groups of the match the backtracking engine finds first, or <<>>
TitleMatch(t) == TitleFromA(t, FirstA(t, 1, TRUE))

\* HeaderOf made lenient: a title that does not match gives an empty header
HeaderOfLenient(m) ==
    IF m = <<>>
    THEN [home_team |-> <<>>, away_team |-> <<>>, home_score |-> 0,
          away_score |-> 0, competition |-> <<>>]
    ELSE [home_team   |-> Strip(m[1]),
          away_team   |-> Strip(m[2]),
          home_score  |-> ToInt(m[3]),
          away_score  |-> ToInt(m[4]),
          competition |-> Strip(m[5])]

\* lines 72-79: the header dict from the groups of the match
HeaderOf(m) ==
    IF m = <<>> THEN [error |-> "RuntimeError: title format"]
    ELSE [home_team   |-> Strip(m[1]),
          away_team   |-> Strip(m[2]),
          home_score  |-> ToInt(m[3]),
          away_score  |-> ToInt(m[4]),
          competition |-> Strip(m[5])]

\* The value of _parse_header_info: the header dict, or the RuntimeError raised
ParseHeaderInfo(doc) ==
    IF ~doc.has_h1 THEN [error |-> "RuntimeError: no h1"]
    ELSE Apply(HeaderOf, Apply(TitleMatch, HeaderTitle(doc.h1)))

IsError(v) == DOMAIN v = {"error"}

(***************************************************************************)
(* _parse_datetime_and_venue  (demo_scraper.py 82-115)                     *)
(***************************************************************************)
\* DATETIME_RE = (\d{2}\.\d{2}\.\d{4}\.)\s+(\d{2}:\d{2})  matching at position p;
\* the value is the position where group 2 starts, or 0
DatetimeAt(s, p) ==
    IF /\ p + 10 <= Len(s)
       /\ AllIn(s, p, p + 1, IsDigit) /\ s[p + 2] = "."
       /\ AllIn(s, p + 3, p + 4, IsDigit) /\ s[p + 5] = "."
       /\ AllIn(s, p + 6, p + 9, IsDigit) /\ s[p + 10] = "."
    THEN LET e == RunEnd(s, p + 11, IsSpace)
         IN  IF /\ e >= p + 11
                /\ e + 5 <= Len(s)
                /\ AllIn(s, e + 1, e + 2, IsDigit) /\ s[e + 3] = ":"
                /\ AllIn(s, e + 4, e + 5, IsDigit)
             THEN e + 1 ELSE 0
    ELSE 0

\* DATETIME_RE.search(s): the leftmost position where the pattern matches, or 0
DatetimeSearch(s) ==
    IF \E p \in 1..Len(s) : DatetimeAt(s, p) > 0
    THEN CHOOSE p \in 1..Len(s) :
            DatetimeAt(s, p) > 0 /\ \A q \in 1..(p - 1) : DatetimeAt(s, q) = 0
    ELSE 0

IsLeap(y) == (y % 4 = 0 /\ y % 100 # 0) \/ y % 400 = 0

DaysInMonth(y, m) ==
    IF m = 2 THEN (IF IsLeap(y) THEN 29 ELSE 28)
    ELSE IF m \in {4, 6, 9, 11} THEN 30 ELSE 31

\* datetime.strptime(..., "%d.%m.%Y. %H:%M") on two-digit day, month, hour and
\* minute and a four-digit year: the datetime, or <<>> for the ValueError
Strptime(d, m, y, hh, mm) ==
    IF /\ y >= 1
       /\ m \in 1..12
       /\ d >= 1 /\ d <= DaysInMonth(y, m)
       /\ hh \in 0..23
       /\ mm \in 0..59
    THEN <<y, m, d, hh, mm>>
    ELSE <<>>

\* VenueCityOf taking the last part, not the second, as the city
VenueCityOfLast(parts) ==
    IF Len(parts) = 1 THEN <<Strip(parts[1]), None>>
    ELSE <<Strip(parts[1]), Strip(parts[Len(parts)])>>

\* lines 108-113, from the comma-separated parts of a non-empty `before`
VenueCityOf(parts) ==
    IF Len(parts) = 1 THEN <<Strip(parts[1]), None>>
    ELSE <<Strip(parts[1]), Strip(parts[2])>>

\* line 104
Before(s, start) == Strip(RStripCommaSpace(Slice(s, 1, start - 1)))

\* lines 103-113: the venue and city from the text before the match
VenueCity(s, start) ==
    IF Len(Before(s, start)) = 0 THEN <<None, None>>
    ELSE VenueCityOf(SplitComma(Before(s, start)))

\* The text nodes of the document in document order, each with the headings
\* found under its parent: the strings of the h1 first (no player heading
\* lies inside the title), then the text nodes of the body.
AllNodes(doc) ==
    (IF doc.has_h1 THEN [i \in 1..Len(doc.h1) |-> [text |-> doc.h1[i], h3 |-> <<>>]]
     ELSE <<>>) \o doc.nodes

\* soup.find_all(string=DATETIME_RE): the text nodes the pattern is found in
DatetimeNodes(doc) ==
    SelectSeq([i \in 1..Len(AllNodes(doc)) |-> AllNodes(doc)[i].text],
              LAMBDA t : DatetimeSearch(t) > 0)

\* line 101 on the match at position p of s, whose time starts at position t
StrptimeAt(s, p, t) ==
    Strptime(ToInt(Slice(s, p, p + 1)), ToInt(Slice(s, p + 3, p + 4)),
             ToInt(Slice(s, p + 6, p + 9)), ToInt(Slice(s, t, t + 1)),
             ToInt(Slice(s, t + 3, t + 4)))

\* lines 100-115, m being the match at position p > 0 of s
DatetimeAndVenueAt(s, p, dt) ==
    IF dt = <<>> THEN [error |-> "ValueError: strptime"]
    ELSE [venue |-> VenueCity(s, p)[1], city |-> VenueCity(s, p)[2], dt |-> dt]

\* lines 95-98
DatetimeAndVenueIn(s, p) ==
    IF p = 0 THEN [venue |-> None, city |-> None, dt |-> None]
    ELSE DatetimeAndVenueAt(s, p, StrptimeAt(s, p, DatetimeAt(s, p)))

\* The value of _parse_datetime_and_venue: [venue, city, dt], or the
\* ValueError that strptime raises
ParseDatetimeAndVenue(doc) ==
    IF Len(DatetimeNodes(doc)) = 0
    THEN [venue |-> None, city |-> None, dt |-> None]
    ELSE Apply(LAMBDA s : DatetimeAndVenueIn(s, DatetimeSearch(s)),
               Strip(DatetimeNodes(doc)[1]))

(***************************************************************************)
(* _parse_goals_block  (demo_scraper.py 118-164)                           *)
(***************************************************************************)
SeenLimit == 120

\* node.stripped_strings: the strings of a node, stripped, the empty ones dropped
StrippedStrings(node) ==
    SelectSeq([i \in 1..Len(node.strings) |-> Strip(node.strings[i])],
              LAMBDA t : Len(t) > 0)

\* position of the first bare string among the nodes, or 0
FirstString(nodes) ==
    IF \E i \in 1..Len(nodes) : ~nodes[i].is_tag
    THEN CHOOSE i \in 1..Len(nodes) :
            ~nodes[i].is_tag /\ \A j \in 1..(i - 1) : nodes[j].is_tag
    ELSE 0

UpTo(nodes, k) == IF k = 0 THEN nodes ELSE SubSeq(nodes, 1, k)

Limit(nodes) ==
    IF Len(nodes) > SeenLimit THEN SubSeq(nodes, 1, SeenLimit) ELSE nodes

\* lines 139-148.  The walk starts at the parent of the "Suci:" string and
\* follows next_sibling; from a sibling that is a bare string it continues with
\* the next sibling of that string's parent (region.uncles), where a bare
\* string ends it.  At most SeenLimit nodes are visited.
WalkNodes(region) ==
    IF FirstString(region.siblings) = 0 THEN Limit(region.siblings)
    ELSE Limit(UpTo(region.siblings, FirstString(region.siblings))
               \o UpTo(region.uncles, FirstString(region.uncles)))

Candidates(region) ==
    Concat([i \in 1..Len(WalkNodes(region)) |-> StrippedStrings(WalkNodes(region)[i])])

\* GOAL_MINUTE_RE.fullmatch(token):  (\d+)'
IsMinuteToken(token) ==
    /\ Len(token) >= 2
    /\ token[Len(token)] = "'"
    /\ AllIn(token, 1, Len(token) - 1, IsDigit)

MinuteOf(token) == ToInt(Slice(token, 1, Len(token) - 1))

StartsWith(s, prefix) ==
    Len(s) >= Len(prefix) /\ \A i \in 1..Len(prefix) : s[i] = prefix[i]

Suci == <<"S", "u", "c", "i">>

\* truth value of an Optional[str]
Truthy(name) == name # None /\ Len(name) > 0

\* ScanToken without line 157: the scorer slot is kept after an emission
ScanTokenKeepsName(st, token) ==
    IF IsMinuteToken(token) /\ Truthy(st.last_name)
    THEN [last_name |-> st.last_name,
          goals |-> Append(st.goals, [team |-> <<>>, player |-> st.last_name,
                                      minute |-> MinuteOf(token)])]
    ELSE IF ~IsMinuteToken(token) /\ ~StartsWith(token, Suci)
    THEN [last_name |-> token, goals |-> st.goals]
    ELSE st

\* one iteration of the loop of lines 152-160
ScanToken(st, token) ==
    IF IsMinuteToken(token) /\ Truthy(st.last_name)
    THEN [last_name |-> None,
          goals |-> Append(st.goals, [team |-> <<>>, player |-> st.last_name,
                                      minute |-> MinuteOf(token)])]
    ELSE IF ~IsMinuteToken(token) /\ ~StartsWith(token, Suci)
    THEN [last_name |-> token, goals |-> st.goals]
    ELSE st

RECURSIVE ScanTokens(_, _)
ScanTokens(st, tokens) ==
    IF Len(tokens) = 0 THEN st
    ELSE ScanTokens(ScanToken(st, Head(tokens)), Tail(tokens))

\* The list returned by _parse_goals_block
ParseGoalsBlock(doc) ==
    IF ~doc.referees.found THEN <<>>
    ELSE ScanTokens([last_name |-> None, goals |-> <<>>],
                    Candidates(doc.referees)).goals

(***************************************************************************)
(* _iterate_team_blocks  (demo_scraper.py 167-203)                         *)
(***************************************************************************)
NamesFromC(t, a, c) ==
    <<Strip(Slice(t, 1, a)), Strip(Slice(t, c + 1, FirstD(t, c, c + 1, FALSE)))>>

NamesFromA(t, a) ==
    IF a = 0 THEN <<>> ELSE NamesFromC(t, a, GroupsAt(t, a, FALSE))

\* re.match(r"(.+?)\s*-\s*(.+?)\s+\d+:\d+", title): the two names, stripped
NamesMatch(t) == NamesFromA(t, FirstA(t, 1, FALSE))

\* soup.find(string=lambda t: t.strip() == team_name), then node.parent
FindBlock(doc, team_name) ==
    LET hits == SelectSeq(AllNodes(doc), LAMBDA n : Strip(n.text) = team_name)
    IN  IF Len(hits) = 0 THEN <<>> ELSE <<hits[1]>>

\* The list returned by _iterate_team_blocks
IterateTeamBlocks(doc) ==
    IF ~doc.has_h1 THEN <<>>
    ELSE Apply(LAMBDA m : IF m = <<>> THEN <<>>
                           ELSE FindBlock(doc, m[1]) \o FindBlock(doc, m[2]),
               Apply(NamesMatch, GetText(doc.h1)))

(***************************************************************************)
(* _parse_players_from_team_block  (demo_scraper.py 206-282)               *)
(***************************************************************************)
CaptainMark == <<"(", "C", ")">>

Contains(s, sub) ==
    \E i \in 1..(Len(s) - Len(sub) + 1) : Slice(s, i, i + Len(sub) - 1) = sub

\* str.replace("(C)", "")
RECURSIVE RemoveCaptainMark(_)
RemoveCaptainMark(s) ==
    IF Len(s) = 0 THEN <<>>
    ELSE IF StartsWith(s, CaptainMark)
    THEN RemoveCaptainMark(Slice(s, 4, Len(s)))
    ELSE <<s[1]>> \o RemoveCaptainMark(Tail(s))

\* lines 223-227 and 271-280: one PlayerInfo per h3 of the block, in order
ParsePlayersFromTeamBlock(block) ==
    [i \in 1..Len(block.h3) |->
        [name       |-> Strip(RemoveCaptainMark(block.h3[i])),
         is_captain |-> Contains(block.h3[i], CaptainMark)]]

(***************************************************************************)
(* dict with insertion order, and _attach_goal_teams (285-297)             *)
(***************************************************************************)
HasKey(d, k) == \E i \in 1..Len(d) : d[i].key = k

DictGet(d, k) == d[CHOOSE i \in 1..Len(d) : d[i].key = k].val

\* d[k] = v: an existing key keeps its place
DictSet(d, k, v) ==
    IF HasKey(d, k)
    THEN [i \in 1..Len(d) |-> IF d[i].key = k THEN [key |-> k, val |-> v] ELSE d[i]]
    ELSE Append(d, [key |-> k, val |-> v])

\* d.setdefault(k, v)
DictSetDefault(d, k, v) == IF HasKey(d, k) THEN d ELSE DictSet(d, k, v)

\* RegisterPlayers with plain assignment: the last registration wins
RECURSIVE RegisterPlayersLastWins(_, _, _)
RegisterPlayersLastWins(map, team, plist) ==
    IF Len(plist) = 0 THEN map
    ELSE RegisterPlayersLastWins(DictSet(map, Head(plist).name, team), team,
                                 Tail(plist))

RECURSIVE RegisterPlayers(_, _, _)
RegisterPlayers(map, team, plist) ==
    IF Len(plist) = 0 THEN map
    ELSE RegisterPlayers(DictSetDefault(map, Head(plist).name, team), team,
                         Tail(plist))

\* lines 288-291: player name -> team, the first registration wins
RECURSIVE PlayerToTeam(_, _)
PlayerToTeam(map, lu) ==
    IF Len(lu) = 0 THEN map
    ELSE PlayerToTeam(RegisterPlayers(map, Head(lu).key, Head(lu).val), Tail(lu))

UnknownTeam == <<"U", "n", "k", "n", "o", "w", "n">>

\* lines 293-297: the goals with their team filled in
AttachGoalTeams(gs, lu) ==
    LET player_to_team == PlayerToTeam(<<>>, lu)
    IN  [i \in 1..Len(gs) |->
            [gs[i] EXCEPT !.team =
                IF HasKey(player_to_team, gs[i].player)
                THEN DictGet(player_to_team, gs[i].player)
                ELSE UnknownTeam]]

(***************************************************************************)
(* Rendering of a page from its content (the input of a run)               *)
(***************************************************************************)
\* decimal digits of a natural number
RECURSIVE Dec(_)
Dec(n) == IF n < 10 THEN <<Digits[n + 1]>> ELSE Dec(n \div 10) \o <<Digits[(n % 10) + 1]>>

Pad2(n) == <<Digits[((n \div 10) % 10) + 1], Digits[(n % 10) + 1]>>

Pad4(n) == Pad2(n \div 100) \o Pad2(n % 100)

SP == <<" ">>

\* The strings of the <h1>.  kind: "ok" is the documented shape on one string,
\* "wide" the same with runs of whitespace, "tags" the same spread over child
\* tags, and the others leave a part of it out.
RenderHeading(h) ==
    LET score == Dec(h.x) \o <<":">> \o Dec(h.y)
    IN  CASE h.kind = "ok" ->
               <<h.A \o <<" ", "-", " ">> \o h.B \o SP \o score \o <<",", " ">> \o h.C>>
          [] h.kind = "wide" ->
               <<<<"\n", " ">> \o h.A \o <<" ", " ", "-", "\n">> \o h.B \o <<" ", " ">>
                 \o score \o <<",", " ", "\n">> \o h.C \o <<" ">>>>
          [] h.kind = "tags" ->
               <<h.A, <<" ", "-", " ">>, h.B, SP \o score \o <<",">>, h.C>>
          [] h.kind = "no_dash" ->
               <<h.A \o SP \o h.B \o SP \o score \o <<",", " ">> \o h.C>>
          [] h.kind = "no_score" ->
               <<h.A \o <<" ", "-", " ">> \o h.B \o <<",", " ">> \o h.C>>
          [] h.kind = "no_comma" ->
               <<h.A \o <<" ", "-", " ">> \o h.B \o SP \o score>>
          [] OTHER -> <<>>

\* The text node that carries venue, city and kick-off.  kind: "full" is
\* "<segments>, DD.MM.YYYY. HH:MM", "nodot" leaves out the period that ends the
\* date, "none" has no date at all.
RenderDateText(d) ==
    LET place == JoinWith(d.segs, d.sep)
        stamp == Pad2(d.d) \o <<".">> \o Pad2(d.m) \o <<".">> \o Pad4(d.y)
        clock == Pad2(d.hh) \o <<":">> \o Pad2(d.mm)
    IN  CASE d.kind = "full"  ->
               d.lead \o place \o d.tail \o stamp \o <<".", " ">> \o clock \o d.lead
          [] d.kind = "nodot" -> place \o d.tail \o stamp \o SP \o clock
          [] OTHER            -> place

\* The strings after the referee marker, on one tag
RenderReferees(r) ==
    [found    |-> r.found,
     siblings |-> <<[is_tag |-> TRUE, strings |-> [i \in 1..Len(r.toks) |-> r.toks[i].text]]>>
                  \o r.after,
     uncles   |-> r.uncles]

RenderMatchPage(c) ==
    [has_h1   |-> c.head.kind # "no_h1",
     h1       |-> RenderHeading(c.head),
     nodes    |-> <<[text |-> RenderDateText(c.date), h3 |-> <<>>]>> \o c.blocks,
     referees |-> RenderReferees(c.refs)]

(***************************************************************************)
(* scrape_match  (demo_scraper.py 300-344), one action per statement       *)
(***************************************************************************)
Raise(stage, err) ==
    /\ pc' = "raised"
    /\ result' = [error |-> err, stage |-> stage]

\* line 301: _get_soup; raise_for_status raises on a non-success status
GetSoup ==
    /\ pc = "get_soup"
    /\ UNCHANGED comp_vars
    /\ \E status_ok \in BOOLEAN :
          IF status_ok
          THEN /\ soup' = RenderMatchPage(inp)
               /\ pc' = "header"
               /\ UNCHANGED result
          ELSE /\ Raise("fetch", "HTTPError")
               /\ UNCHANGED soup
    /\ UNCHANGED <<inp, header, venue, city, date_time, candidates, last_name,
                   goals, team_blocks, lineups>>

\* line 303
HeaderStep ==
    /\ pc = "header"
    /\ UNCHANGED comp_vars
    /\ LET h == ParseHeaderInfo(soup)
       IN  IF IsError(h)
           THEN /\ Raise("header", h.error)
                /\ UNCHANGED header
           ELSE /\ header' = h
                /\ pc' = "datetime"
                /\ UNCHANGED result
    /\ UNCHANGED <<inp, soup, venue, city, date_time, candidates, last_name,
                   goals, team_blocks, lineups>>

\* line 304
DatetimeStep ==
    /\ pc = "datetime"
    /\ UNCHANGED comp_vars
    /\ LET r == ParseDatetimeAndVenue(soup)
       IN  IF IsError(r)
           THEN /\ Raise("datetime", r.error)
                /\ UNCHANGED <<venue, city, date_time>>
           ELSE /\ venue' = r.venue
                /\ city' = r.city
                /\ date_time' = r.dt
                /\ pc' = "goals"
                /\ UNCHANGED result
    /\ UNCHANGED <<inp, soup, header, candidates, last_name, goals, team_blocks,
                   lineups>>

\* lines 131-151: locate the referee marker and collect the following strings
GoalsBegin ==
    /\ pc = "goals"
    /\ UNCHANGED comp_vars
    /\ goals' = <<>>
    /\ last_name' = None
    /\ IF soup.referees.found
       THEN candidates' = Candidates(soup.referees) /\ pc' = "scan"
       ELSE candidates' = <<>> /\ pc' = "blocks"
    /\ UNCHANGED <<inp, soup, header, venue, city, date_time, team_blocks,
                   lineups, result>>

\* lines 152-160: one token of the scan
ScanNext ==
    /\ pc = "scan"
    /\ UNCHANGED comp_vars
    /\ candidates # <<>>
    /\ LET st == ScanToken([last_name |-> last_name, goals |-> goals],
                           Head(candidates))
       IN  last_name' = st.last_name /\ goals' = st.goals
    /\ candidates' = Tail(candidates)
    /\ UNCHANGED <<pc, inp, soup, header, venue, city, date_time, team_blocks,
                   lineups, result>>

\* line 164
GoalsReturn ==
    /\ pc = "scan"
    /\ UNCHANGED comp_vars
    /\ candidates = <<>>
    /\ pc' = "blocks"
    /\ UNCHANGED <<inp, soup, header, venue, city, date_time, candidates,
                   last_name, goals, team_blocks, lineups, result>>

\* dict literal of lines 312-315: equal keys collapse into one entry
NewLineups(h) ==
    DictSet(DictSet(<<>>, h.home_team, <<>>), h.away_team, <<>>)

\* lines 311-315
BlocksStep ==
    /\ pc = "blocks"
    /\ UNCHANGED comp_vars
    /\ team_blocks' = IterateTeamBlocks(soup)
    /\ lineups' = NewLineups(header)
    /\ pc' = "print"
    /\ UNCHANGED <<inp, soup, header, venue, city, date_time, candidates,
                   last_name, goals, result>>

\* line 317: print(f"Home team block: {team_blocks[0]}")
PrintStep ==
    /\ pc = "print"
    /\ UNCHANGED comp_vars
    /\ IF Len(team_blocks) = 0
       THEN Raise("print", "IndexError")
       ELSE pc' = "lineups" /\ UNCHANGED result
    /\ UNCHANGED <<inp, soup, header, venue, city, date_time, candidates,
                   last_name, goals, team_blocks, lineups>>

\* lines 319-322
FillLineups(lu, h, blocks) ==
    LET one == IF Len(blocks) >= 1
               THEN DictSet(lu, h.home_team, ParsePlayersFromTeamBlock(blocks[1]))
               ELSE lu
    IN  IF Len(blocks) >= 2
        THEN DictSet(one, h.away_team, ParsePlayersFromTeamBlock(blocks[2]))
        ELSE one

LineupsStep ==
    /\ pc = "lineups"
    /\ UNCHANGED comp_vars
    /\ lineups' = FillLineups(lineups, header, team_blocks)
    /\ pc' = "attach"
    /\ UNCHANGED <<inp, soup, header, venue, city, date_time, candidates,
                   last_name, goals, team_blocks, result>>

\* line 325
AttachStep ==
    /\ pc = "attach"
    /\ UNCHANGED comp_vars
    /\ goals' = AttachGoalTeams(goals, lineups)
    /\ pc' = "return"
    /\ UNCHANGED <<inp, soup, header, venue, city, date_time, candidates,
                   last_name, team_blocks, lineups, result>>

\* lines 332-344
ReturnStep ==
    /\ pc = "return"
    /\ UNCHANGED comp_vars
    /\ result' = [competition |-> header.competition,
                  home_team   |-> header.home_team,
                  away_team   |-> header.away_team,
                  home_score  |-> header.home_score,
                  away_score  |-> header.away_score,
                  venue       |-> venue,
                  city        |-> city,
                  date_time   |-> date_time,
                  goals       |-> goals,
                  lineups     |-> lineups]
    /\ pc' = "done"
    /\ UNCHANGED <<inp, soup, header, venue, city, date_time, candidates,
                   last_name, goals, team_blocks, lineups>>

(***************************************************************************)
(* Page contents the runs are started from                                 *)
(***************************************************************************)
N_a   == <<"a">>
N_bc  == <<"b", " ", "c">>
N_ab  == <<"a", "-", "b">>       \* a name with a hyphen
N_c12 == <<"c", " ", "1", ":", "2">>   \* a name with a digit:digit fragment
P_B   == <<"B">>
P_G   == <<"G">>
P_X   == <<"X">>
P_BC  == <<"B", " ", "(", "C", ")">>

Heading(kind, A, B, x, y, C) ==
    [kind |-> kind, A |-> A, B |-> B, x |-> x, y |-> y, C |-> C]

NoDate == [kind |-> "none", segs |-> <<>>, sep |-> <<",">>, tail |-> <<>>,
           lead |-> <<>>, d |-> 1, m |-> 1, y |-> 2025, hh |-> 0, mm |-> 0]

DateOf(segs, d, m, y, hh, mm) ==
    [kind |-> "full", segs |-> segs, sep |-> <<",", " ">>,
     tail |-> IF segs = <<>> THEN <<>> ELSE <<",", " ">>, lead |-> <<>>,
     d |-> d, m |-> m, y |-> y, hh |-> hh, mm |-> mm]

Tok(kind, text, n) == [kind |-> kind, text |-> text, n |-> n]

T_Suci == Tok("suci", <<"S", "u", "c", "i", ":">>, 0)
T_B    == Tok("name", P_B, 0)
T_G    == Tok("name", P_G, 0)
T_X    == Tok("name", P_X, 0)
T_14   == Tok("min", <<"1", "4", "'">>, 14)
T_2    == Tok("min", <<"2", "'">>, 2)

NoRefs == [found |-> FALSE, toks |-> <<>>, after |-> <<>>, uncles |-> <<>>]

Refs(toks) == [found |-> TRUE, toks |-> toks, after |-> <<>>, uncles |-> <<>>]

TagNode(strings) == [is_tag |-> TRUE, strings |-> strings]

TextNode(string) == [is_tag |-> FALSE, strings |-> <<string>>]

Block(text, h3) == [text |-> text, h3 |-> h3]

MatchHeads ==
    { Heading("ok", N_a, N_bc, 4, 3, N_c12), Heading("ok", N_a, N_a, 0, 0, N_a),
      Heading("wide", N_a, N_bc, 4, 3, N_a), Heading("tags", N_a, N_bc, 10, 3, N_a),
      Heading("ok", N_ab, N_bc, 4, 3, N_a), Heading("no_h1", N_a, N_bc, 4, 3, N_a),
      Heading("no_dash", N_a, N_bc, 4, 3, N_a), Heading("no_score", N_a, N_bc, 4, 3, N_a),
      Heading("no_comma", N_a, N_bc, 4, 3, N_a) }

MatchDates ==
    { NoDate, DateOf(<<N_a, N_bc>>, 23, 11, 2025, 13, 30),
      DateOf(<<>>, 29, 2, 2024, 0, 0), DateOf(<<N_a>>, 31, 2, 2025, 13, 30),
      [DateOf(<<N_a>>, 23, 11, 2025, 13, 30) EXCEPT !.kind = "nodot"] }

MatchRefs ==
    { NoRefs, Refs(<<>>), Refs(<<T_Suci, T_B, T_14, T_G, T_2, T_X, T_14>>),
      Refs(<<T_B, T_2, T_14>>),
      [Refs(<<T_Suci>>) EXCEPT
          !.after = <<TagNode(<<P_B, <<" ">>, <<"1", "4", "'">>>>), TextNode(P_G),
                      TagNode(<<<<"7", "'">>>>)>>,
          !.uncles = <<TagNode(<<<<"2", "'">>, P_X>>), TextNode(<<"\n">>),
                       TagNode(<<<<"9", "'">>>>)>>] }

MatchBlocks ==
    { <<>>,
      <<Block(N_a, <<P_BC, P_G>>)>>,
      <<Block(N_bc, <<P_G>>)>>,
      <<Block(<<" ">> \o N_a \o <<"\n">>, <<P_B, P_G>>), Block(N_bc, <<P_G>>)>>,
      <<Block(N_bc, <<P_X>>), Block(N_a, <<P_B>>), Block(N_a, <<P_G>>)>> }

MatchPages ==
    { [head |-> h, date |-> d, refs |-> r, blocks |-> b] :
        h \in MatchHeads, d \in MatchDates, r \in MatchRefs, b \in MatchBlocks }

FirstDay == <<2026, 11, 1>>

\* the process as it starts: dateutil is imported, and its parser created,
\* with scraper.py
StartEnv(seed) == [hash_seed |-> seed, year0 |-> FirstDay[1], today |-> FirstDay]

\* before the first statement of scrape_match
Start(page, at) ==
    /\ inp = page
    /\ pc = at
    /\ header = Unset
    /\ venue = Unset /\ city = Unset /\ date_time = Unset
    /\ candidates = <<>> /\ last_name = None /\ goals = <<>>
    /\ team_blocks = <<>> /\ lineups = <<>>
    /\ result = Unset
    /\ todo = <<>> /\ standings = <<>> /\ stats = <<>>
    /\ env = StartEnv(0) /\ runs = <<>>
    /\ teams = <<>> /\ fixtures = <<>> /\ players = <<>>

Init ==
    \E page \in MatchPages :
        /\ Start(page, "get_soup")
        /\ soup = Unset

Next ==
    \/ GetSoup
    \/ HeaderStep
    \/ DatetimeStep
    \/ GoalsBegin
    \/ ScanNext
    \/ GoalsReturn
    \/ BlocksStep
    \/ PrintStep
    \/ LineupsStep
    \/ AttachStep
    \/ ReturnStep

Spec == Init /\ [][Next]_vars

(***************************************************************************)
(* _parse_header_info on its own                                           *)
(***************************************************************************)
MaxScore == 12

Names == {N_a, N_bc, N_ab, N_c12}

Scores == {0, 7, MaxScore}

OkKinds == {"ok", "wide", "tags"}

HeaderPages ==
    { [head |-> Heading(k, A, B, x, y, C), date |-> NoDate, refs |-> NoRefs,
       blocks |-> <<>>] :
        k \in OkKinds, A \in Names, B \in Names, C \in {N_a, N_c12, N_ab},
        x \in Scores, y \in Scores }

InitHeader ==
    \E page \in HeaderPages :
        /\ Start(page, "header")
        /\ soup = RenderMatchPage(page)

NextHeader == HeaderStep

SpecHeader == InitHeader /\ [][NextHeader]_vars

\* C1: for every heading "<A> - <B> <x>:<y>, <C>" the header dict is
\* home_team = A, away_team = B, home_score = x, away_score = y,
\* competition = C, also when a name holds a hyphen or a digit:digit fragment.
C1_HeaderRecovered ==
    (pc # "header" /\ inp.head.kind \in OkKinds) =>
        /\ pc = "datetime"
        /\ header.home_team = inp.head.A
        /\ header.away_team = inp.head.B
        /\ header.home_score = inp.head.x
        /\ header.away_score = inp.head.y
        /\ header.competition = inp.head.C

(***************************************************************************)
(* scrape_match: the fatal header and what follows it                      *)
(***************************************************************************)
\* the fetch has succeeded
Fetched == pc # "get_soup" /\ ~(pc = "raised" /\ result.stage = "fetch")

HasDash(t) == \E i \in 1..Len(t) : t[i] = "-"

\* some N:N in the text
HasScore(t) ==
    \E i \in 1..(Len(t) - 2) : IsDigit(t[i]) /\ t[i + 1] = ":" /\ IsDigit(t[i + 2])

BadHeading(doc) ==
    \/ ~doc.has_h1
    \/ ~HasDash(GetText(doc.h1))
    \/ ~HasScore(GetText(doc.h1))

NothingExtracted ==
    /\ header = Unset
    /\ venue = Unset /\ city = Unset /\ date_time = Unset
    /\ candidates = <<>> /\ goals = <<>>
    /\ team_blocks = <<>> /\ lineups = <<>>

\* C2: with no <h1>, or a heading without "-" or without an N:N score,
\* _parse_header_info raises; scrape_match stops there: no other sub-extractor
\* has run and no record is returned.
C2_FatalHeader ==
    (Fetched /\ BadHeading(soup)) =>
        /\ pc \in {"header", "raised"}
        /\ pc = "raised" => (result.stage = "header" /\ DOMAIN result = {"error", "stage"})
        /\ NothingExtracted

C2_Witness ==
    /\ pc = "raised" /\ result.stage = "header"
    /\ soup.has_h1 /\ HasDash(GetText(soup.h1)) /\ ~HasScore(GetText(soup.h1))

\* C3: once the fetch has succeeded and the header has parsed, scrape_match
\* returns a record and does not raise, also when no team block is found.
\* (Stated for the documents whose date is read without error.)
C3_NoRaiseAfterHeader ==
    pc = "raised" => result.stage \in {"fetch", "header", "datetime"}

\* C6: after _attach_goal_teams every goal's team is the first of home, away
\* whose roster holds the scorer, else "Unknown"; so it is one of the two team
\* names or the sentinel, and never empty.
InRoster(team, player) ==
    \E i \in 1..Len(DictGet(lineups, team)) : DictGet(lineups, team)[i].name = player

TeamFor(player) ==
    IF InRoster(header.home_team, player) THEN header.home_team
    ELSE IF InRoster(header.away_team, player) THEN header.away_team
    ELSE UnknownTeam

C6_GoalTeams ==
    pc \in {"return", "done"} =>
        \A i \in 1..Len(goals) :
            /\ goals[i].team = TeamFor(goals[i].player)
            /\ goals[i].team \in {header.home_team, header.away_team, UnknownTeam}
            /\ goals[i].team # <<>>

C6_Witness ==
    /\ pc = "done"
    /\ header.home_team # header.away_team
    /\ \E i \in 1..Len(goals) :
          /\ InRoster(header.home_team, goals[i].player)
          /\ InRoster(header.away_team, goals[i].player)
          /\ goals[i].team = header.home_team
    /\ \E i \in 1..Len(goals) : goals[i].team = UnknownTeam

(***************************************************************************)
(* _parse_datetime_and_venue on its own                                    *)
(***************************************************************************)
MaxSegs == 3

\* venue and city segments: empty, one word, two words
SegTexts == {<<>>, N_a, N_bc}

RECURSIVE SeqsUpTo(_, _)
SeqsUpTo(S, n) ==
    IF n = 0 THEN {<<>>}
    ELSE SeqsUpTo(S, n - 1)
         \cup {Append(q, x) : q \in {r \in SeqsUpTo(S, n - 1) : Len(r) = n - 1}, x \in S}

\* day, month, year, hour, minute: real dates and two-digit values that are none
Stamps ==
    { <<23, 11, 2025, 13, 30>>, <<29, 2, 2024, 0, 0>>, <<29, 2, 2025, 23, 59>>,
      <<31, 4, 2025, 10, 0>>, <<0, 1, 2025, 10, 0>>, <<1, 13, 2025, 10, 0>>,
      <<1, 1, 0, 10, 0>>, <<1, 1, 2025, 24, 0>>, <<1, 1, 2025, 0, 60>> }

DateTexts ==
    { [kind |-> k, segs |-> segs, sep |-> sep, tail |-> tail, lead |-> lead,
       d |-> st[1], m |-> st[2], y |-> st[3], hh |-> st[4], mm |-> st[5]] :
        k \in {"full"}, segs \in SeqsUpTo(SegTexts, MaxSegs),
        sep \in {<<",">>, <<",", " ">>}, tail \in {<<" ">>, <<",", " ">>},
        lead \in {<<>>, <<" ">>}, st \in Stamps }
    \cup { [DateOf(<<N_a, N_bc>>, 23, 11, 2025, 13, 30) EXCEPT !.kind = k] :
             k \in {"nodot", "none"} }

DatePages ==
    { [head |-> Heading("ok", N_a, N_bc, 4, 3, N_a), date |-> d, refs |-> NoRefs,
       blocks |-> <<>>] : d \in DateTexts }

InitDateVenue ==
    \E page \in DatePages :
        /\ Start(page, "datetime")
        /\ soup = RenderMatchPage(page)

NextDateVenue == DatetimeStep

SpecDateVenue == InitDateVenue /\ [][NextDateVenue]_vars

\* C4: _parse_datetime_and_venue never raises: without a text node of the
\* date+time grammar it returns (None, None, None), and for a text node
\* DD.MM.YYYY. HH:MM with any two-digit values it returns a result.
C4_NeverRaises ==
    pc # "datetime" =>
        /\ pc = "goals"
        /\ inp.date.kind # "full" =>
              (venue = None /\ city = None /\ date_time = None)

\* the segments left after the trailing commas and blanks are trimmed
RECURSIVE TrimSegs(_)
TrimSegs(segs) ==
    IF Len(segs) = 0 THEN <<>>
    ELSE IF segs[Len(segs)] = <<>> THEN TrimSegs(SubSeq(segs, 1, Len(segs) - 1))
    ELSE segs

SegAt(segs, i) == IF Len(segs) >= i THEN segs[i] ELSE None

\* C9: the text before the date, trimmed of trailing commas and blanks, split
\* on commas: no segment gives venue = city = None, one gives the venue only,
\* two or more give venue = first and city = second, the rest discarded.
C9_VenueCity ==
    (pc = "goals" /\ inp.date.kind = "full") =>
        /\ venue = SegAt(TrimSegs(inp.date.segs), 1)
        /\ city = SegAt(TrimSegs(inp.date.segs), 2)

C9_Witness ==
    /\ pc = "goals" /\ inp.date.kind = "full"
    /\ Len(TrimSegs(inp.date.segs)) = 3
    /\ venue = N_bc /\ city = N_a

(***************************************************************************)
(* the token scan of _parse_goals_block on its own                         *)
(***************************************************************************)
MaxTokens == 4

Tokens ==
    { T_Suci, T_B, T_G, T_14, T_2, Tok("name", <<"7">>, 0),
      Tok("min", <<"0", "7", "'">>, 7) }

GoalPages ==
    { [head |-> Heading("ok", N_a, N_bc, 4, 3, N_a), date |-> NoDate,
       refs |-> Refs(toks), blocks |-> <<>>] : toks \in SeqsUpTo(Tokens, MaxTokens) }

InitGoals ==
    \E page \in GoalPages :
        /\ Start(page, "goals")
        /\ soup = RenderMatchPage(page)

NextGoals ==
    \/ GoalsBegin
    \/ ScanNext
    \/ GoalsReturn

SpecGoals == InitGoals /\ [][NextGoals]_vars

\* the tokens scanned so far
Scanned == SubSeq(inp.refs.toks, 1, Len(inp.refs.toks) - Len(candidates))

\* the name held when token i arrives: the nearest earlier token that is not
\* "Suci"-prefixed, if that token is a name (a minute token empties the slot)
HeldAt(toks, i) ==
    { j \in 1..(i - 1) :
        /\ toks[j].kind = "name"
        /\ \A k \in (j + 1)..(i - 1) : toks[k].kind = "suci" }

EmitsAt(toks, i) == toks[i].kind = "min" /\ HeldAt(toks, i) # {}

EventAt(toks, i) ==
    [team |-> <<>>, player |-> toks[CHOOSE j \in HeldAt(toks, i) : TRUE].text,
     minute |-> toks[i].n]

ExpectedGoals(toks) ==
    LET at == SelectSeq([i \in 1..Len(toks) |-> i], LAMBDA i : EmitsAt(toks, i))
    IN  [k \in 1..Len(at) |-> EventAt(toks, at[k])]

\* C5: a goal event is emitted exactly when a minute token arrives while a
\* name is held; it carries that name, the parsed minute and an empty team,
\* and the slot is emptied, so no name yields two events.
C5_Scanner ==
    pc \in {"scan", "blocks"} => goals = ExpectedGoals(Scanned)

C5_Witness ==
    /\ pc = "scan" /\ candidates = <<>>
    /\ Len(goals) = 1
    /\ \E i \in 2..Len(inp.refs.toks) :
          inp.refs.toks[i].kind = "min" /\ inp.refs.toks[i - 1].kind = "min"
          /\ EmitsAt(inp.refs.toks, i - 1)

(***************************************************************************)
(* CompetitionScraper.parse_standings  (scraper.py 182-224)                *)
(***************************************************************************)
Upper == <<"A", "B", "C", "D", "E", "F", "G", "H", "I", "J", "K", "L", "M",
           "N", "O", "P", "Q", "R", "S", "T", "U", "V", "W", "X", "Y", "Z">>

Lower == <<"a", "b", "c", "d", "e", "f", "g", "h", "i", "j", "k", "l", "m",
           "n", "o", "p", "q", "r", "s", "t", "u", "v", "w", "x", "y", "z">>

LowerChar(c) ==
    IF \E i \in 1..26 : Upper[i] = c
    THEN Lower[CHOOSE i \in 1..26 : Upper[i] = c]
    ELSE c

\* str.lower()
ToLower(s) == [i \in 1..Len(s) |-> LowerChar(s[i])]

\* int() of a stripped cell: an optional sign and decimal digits; <<n>> on
\* success, <<>> where int() raises ValueError
PyInt(s) ==
    IF IsDigitStr(s) THEN <<ToInt(s)>>
    ELSE IF Len(s) > 1 /\ s[1] \in {"+", "-"} /\ IsDigitStr(Tail(s))
    THEN <<IF s[1] = "-" THEN 0 - ToInt(Tail(s)) ELSE ToInt(Tail(s))>>
    ELSE <<>>

HeaderKeywords == {<<"p", "o", "z">>, <<"k", "l", "u", "b">>, <<"b", "o", "d">>}

\* lines 190-191: the table is a standings table
IsStandingsTable(table) ==
    \E h \in HeaderKeywords :
        Contains(JoinWith([i \in 1..Len(table.th) |-> ToLower(Strip(table.th[i]))],
                          SP), h)

\* lines 204-209: int(tds[k]) if len(tds) > k and tds[k].isdigit() else 0
\* (k counts from 0)
CountAt(tds, k) ==
    IF Len(tds) > k /\ IsDigitStr(tds[k + 1]) THEN ToInt(tds[k + 1]) ELSE 0

\* line 210
PointsOf(tds) == IF IsDigitStr(tds[Len(tds)]) THEN ToInt(tds[Len(tds)]) ELSE 0

\* the dict of lines 211-221 with the position taken from cell col
RowDict(tds, col) ==
    [position      |-> PyInt(tds[col])[1],
     team          |-> tds[2],
     played        |-> CountAt(tds, 2),
     wins          |-> CountAt(tds, 3),
     draws         |-> CountAt(tds, 4),
     losses        |-> CountAt(tds, 5),
     goals_for     |-> CountAt(tds, 6),
     goals_against |-> CountAt(tds, 7),
     points        |-> PointsOf(tds)]

\* lines 195-223 for one <tr>: <<row>>, or <<>> when the row is skipped
\* (no cell, int(tds[0]) raises ValueError, find_all("td")[1] raises IndexError)
StandingsRow(tds) ==
    IF Len(tds) < 2 \/ PyInt(tds[1]) = <<>> THEN <<>>
    ELSE <<RowDict(tds, 1)>>

\* line 194
CellTexts(tr) == [i \in 1..Len(tr) |-> GetText(tr[i])]

\* lines 193-223: the rows one table contributes, in row order
RECURSIVE TableRows(_)
TableRows(trs) ==
    IF Len(trs) = 0 THEN <<>>
    ELSE StandingsRow(CellTexts(Head(trs))) \o TableRows(Tail(trs))

\* lines 186-187
StandingsBegin ==
    /\ pc = "standings"
    /\ todo' = soup.tables
    /\ standings' = <<>>
    /\ pc' = "table"
    /\ UNCHANGED <<teams, fixtures, players>>
    /\ UNCHANGED <<inp, soup, header, venue, city, date_time, candidates,
                   last_name, goals, team_blocks, lineups, result, stats,
                   env, runs>>

\* lines 188-223: one pass of the loop over the tables
StandingsTable ==
    /\ pc = "table"
    /\ todo # <<>>
    /\ standings' = IF IsStandingsTable(Head(todo))
                    THEN standings \o TableRows(Head(todo).tbody)
                    ELSE standings
    /\ todo' = Tail(todo)
    /\ UNCHANGED <<teams, fixtures, players>>
    /\ UNCHANGED <<pc, inp, soup, header, venue, city, date_time, candidates,
                   last_name, goals, team_blocks, lineups, result, stats,
                   env, runs>>

\* line 224
StandingsReturn ==
    /\ pc = "table"
    /\ todo = <<>>
    /\ result' = standings
    /\ pc' = "done"
    /\ UNCHANGED <<teams, fixtures, players>>
    /\ UNCHANGED <<inp, soup, header, venue, city, date_time, candidates,
                   last_name, goals, team_blocks, lineups, todo, standings,
                   stats, env, runs>>

\* a competition page with nothing on it
EmptyPage ==
    [base_url |-> <<"u">>, has_h1 |-> FALSE, h1 |-> <<>>, has_title |-> FALSE,
     title |-> None, texts |-> <<>>, anchors |-> <<>>, tags |-> <<>>,
     dates |-> <<>>, scores |-> <<>>, strings_have_get_text |-> TRUE,
     tables |-> <<>>, headings |-> <<>>]

\* before the first statement of an extractor of the competition scraper
StartCompWith(doc, at, seed) ==
    /\ inp = doc
    /\ soup = doc
    /\ pc = at
    /\ header = Unset
    /\ venue = Unset /\ city = Unset /\ date_time = Unset
    /\ candidates = <<>> /\ last_name = None /\ goals = <<>>
    /\ team_blocks = <<>> /\ lineups = <<>>
    /\ result = Unset
    /\ todo = <<>> /\ standings = <<>> /\ stats = <<>>
    /\ env = StartEnv(seed) /\ runs = <<>>
    /\ teams = <<>> /\ fixtures = <<>> /\ players = <<>>

StartComp(doc, at) == StartCompWith(doc, at, 0)

MaxRows == 2

Cell(text) == <<text>>

PosCells == {<<"1">>, <<"2">>, <<"0", "1">>, <<"x">>}

\* <tr>s: no cell, one cell, and position / team / played / points
TableRowSet ==
    {<<>>}
    \cup {<<Cell(p)>> : p \in PosCells}
    \cup {<<Cell(p), <<N_a, N_bc>>, Cell(n), Cell(<<"7">>)>> :
            p \in PosCells, n \in {<<"2">>, <<"x">>}}

TableHeads ==
    {<<<<"P", "o", "z", ".">>, <<"K", "l", "u", "b">>>>,
     <<<<" ", "B", "o", "d", "o", "v", "i", "\n">>>>,
     <<<<"T", "i", "m">>>>}

Tables ==
    {[th |-> h, tbody |-> r] : h \in TableHeads, r \in SeqsUpTo(TableRowSet, MaxRows)}

SecondTables ==
    {<<>>,
     <<[th |-> <<<<"k", "l", "u", "b">>>>,
        tbody |-> <<<<Cell(<<"1">>), Cell(N_a)>>, <<Cell(<<"+", "2">>), Cell(N_a)>>>>]>>}

StandingsPages ==
    {[EmptyPage EXCEPT !.tables = <<t>> \o more] : t \in Tables, more \in SecondTables}

InitStandings ==
    \E doc \in StandingsPages : StartComp(doc, "standings")

NextStandings ==
    \/ StandingsBegin
    \/ StandingsTable
    \/ StandingsReturn

SpecStandings == InitStandings /\ [][NextStandings]_vars

\* the rows appended by the step from this state to the next
Appended == SubSeq(standings', Len(standings) + 1, Len(standings'))

Distinct(seq) == \A i, j \in 1..Len(seq) : i # j => seq[i] # seq[j]

Positions(rows) == [i \in 1..Len(rows) |-> rows[i].position]

\* C7: no two rows taken from the same table have the same position
C7_PositionsUnique ==
    [][pc = "table" /\ todo # <<>> => Distinct(Positions(Appended))]_vars

(***************************************************************************)
(* CompetitionScraper.parse_player_stats  (scraper.py 226-285)             *)
(***************************************************************************)
Strijelci == <<"S", "t", "r", "i", "j", "e", "l", "c", "i">>

Kartoni == <<"K", "a", "r", "t", "o", "n", "i">>

NastupiMinute ==
    <<"N", "a", "s", "t", "u", "p", "i", " ", "/", " ", "m", "i", "n", "u", "t", "e">>

StrijelciKartoni == Strijelci \o <<",", " ", "k", "a", "r", "t", "o", "n", "i">>

\* line 234
HeadingTexts == <<Strijelci, Kartoni, NastupiMinute, StrijelciKartoni>>

HeadingTags == {"h2", "h3", "h4", "strong"}

\* \w of the re module, over the characters used here
IsWord(c) == IsDigit(c) \/ c = "_" \/ \E i \in 1..26 : c \in {Upper[i], Lower[i]}

\* line 258: re.findall(r"\b\d+\b", s), from position i on, as integers
RECURSIVE FindNumbers(_, _)
FindNumbers(s, i) ==
    IF i > Len(s) THEN <<>>
    ELSE IF IsDigit(s[i]) /\ (i = 1 \/ ~IsWord(s[i - 1]))
    THEN LET e == RunEnd(s, i, IsDigit)
         IN  IF e = Len(s) \/ ~IsWord(s[e + 1])
             THEN <<ToInt(Slice(s, i, e))>> \o FindNumbers(s, e + 1)
             ELSE FindNumbers(s, e + 1)
    ELSE FindNumbers(s, i + 1)

\* index of the first element satisfying P, 0 when there is none
FirstIndex(seq, P(_)) ==
    IF \E i \in 1..Len(seq) : P(seq[i])
    THEN CHOOSE i \in 1..Len(seq) : P(seq[i]) /\ \A k \in 1..(i - 1) : ~P(seq[k])
    ELSE 0

\* lines 235-240: the heading element of a section, 0 when there is none
FindHeading(doc, heading_text) ==
    LET tagged == FirstIndex(doc.headings,
                     LAMBDA t : t.tag \in HeadingTags /\ Contains(t.text, heading_text))
    IN  IF tagged # 0 THEN tagged
        ELSE FirstIndex(doc.headings, LAMBDA t : Contains(t.text, heading_text))

\* line 246: sib.name.startswith("h")
IsSectionBreak(sib) == StartsWith(sib.name, <<"h">>)

\* lines 244-247: the siblings before the next major section
SectionSiblings(sibs) ==
    LET stop == FirstIndex(sibs, IsSectionBreak)
    IN  IF stop = 0 THEN sibs ELSE SubSeq(sibs, 1, stop - 1)

SibTexts(sib) == [i \in 1..Len(sib.strings) |-> sib.strings[i].text]

\* lines 250-258: one merge per named anchor of the sibling
SiblingMerges(heading_text, sib) ==
    LET anchors == SelectSeq(sib.strings, LAMBDA x : x.anchor /\ Len(Strip(x.text)) > 0)
    IN  [i \in 1..Len(anchors) |->
            [heading_text |-> heading_text,
             name         |-> Strip(anchors[i].text),
             numbers      |-> FindNumbers(GetText(SibTexts(sib)), 1)]]

RECURSIVE SectionMerges(_, _)
SectionMerges(heading_text, sibs) ==
    IF Len(sibs) = 0 THEN <<>>
    ELSE SiblingMerges(heading_text, Head(sibs))
         \o SectionMerges(heading_text, Tail(sibs))

\* lines 234-251: the (section, anchor) pairs in the order the loops visit them
RECURSIVE MergeList(_, _)
MergeList(doc, k) ==
    IF k > Len(HeadingTexts) THEN <<>>
    ELSE (IF FindHeading(doc, HeadingTexts[k]) = 0 THEN <<>>
          ELSE SectionMerges(HeadingTexts[k],
                  SectionSiblings(doc.headings[FindHeading(doc, HeadingTexts[k])].siblings)))
         \o MergeList(doc, k + 1)

\* a key the dict of a player does not have
Absent == <<"absent">>

NewEntry == [full_name |-> Absent, goals |-> Absent, minutes |-> Absent,
             yellow_cards |-> Absent, red_cards |-> Absent]

\* stats.get(name, {})
EntryOf(st, name) == IF HasKey(st, name) THEN DictGet(st, name) ELSE NewEntry

\* dict.get(field): None for a missing key
FieldGet(entry, field) == IF entry[field] = Absent THEN None ELSE entry[field]

\* lines 260-270: the goals and minutes read in this section (None: not read)
GoalsRead(m) ==
    IF m.heading_text = Strijelci
    THEN IntVal(IF Len(m.numbers) > 0 THEN m.numbers[1] ELSE 0)
    ELSE None

MinutesRead(m) ==
    IF m.heading_text = NastupiMinute /\ Len(m.numbers) >= 2
    THEN IntVal(m.numbers[2])
    ELSE None

\* lines 271-275
MergeCards(st, m) ==
    IF m.heading_text = Kartoni
    THEN DictSet(st, m.name,
            [EntryOf(st, m.name) EXCEPT
                !.yellow_cards = IntVal(IF Len(m.numbers) > 0 THEN m.numbers[1] ELSE 0),
                !.red_cards    = IntVal(IF Len(m.numbers) > 1 THEN m.numbers[2] ELSE 0)])
    ELSE st

\* the update of lines 276-280 without the fallback to the stored value
OverwriteWith(new, old) == new

\* new if new is not None else old
Fallback(new, old) == IF new # None THEN new ELSE old

\* lines 276-280
MergeFields(st, m) ==
    DictSet(st, m.name,
        [EntryOf(st, m.name) EXCEPT
            !.full_name = m.name,
            !.goals     = Fallback(GoalsRead(m), FieldGet(EntryOf(st, m.name), "goals")),
            !.minutes   = Fallback(MinutesRead(m), FieldGet(EntryOf(st, m.name), "minutes"))])

\* lines 252-280 for one anchor
MergeOne(st, m) == MergeFields(MergeCards(st, m), m)

\* line 231
StatsBegin ==
    /\ pc = "stats"
    /\ stats' = <<>>
    /\ todo' = MergeList(soup, 1)
    /\ pc' = "merge"
    /\ UNCHANGED <<teams, fixtures, players>>
    /\ UNCHANGED <<inp, soup, header, venue, city, date_time, candidates,
                   last_name, goals, team_blocks, lineups, result, standings,
                   env, runs>>

\* lines 252-280: one merge step
MergeStep ==
    /\ pc = "merge"
    /\ todo # <<>>
    /\ stats' = MergeOne(stats, Head(todo))
    /\ todo' = Tail(todo)
    /\ UNCHANGED <<teams, fixtures, players>>
    /\ UNCHANGED <<pc, inp, soup, header, venue, city, date_time, candidates,
                   last_name, goals, team_blocks, lineups, result, standings,
                   env, runs>>

\* line 285
StatsReturn ==
    /\ pc = "merge"
    /\ todo = <<>>
    /\ result' = stats
    /\ pc' = "done"
    /\ UNCHANGED <<teams, fixtures, players>>
    /\ UNCHANGED <<inp, soup, header, venue, city, date_time, candidates,
                   last_name, goals, team_blocks, lineups, todo, standings,
                   stats, env, runs>>

(***************************************************************************)
(* parse_player_stats on its own                                           *)
(***************************************************************************)
MaxSibs == 2

A(text) == [text |-> text, anchor |-> TRUE]

S(text) == [text |-> text, anchor |-> FALSE]

Sib(name, strings) == [name |-> name, strings |-> strings]

Section(tag, text, siblings) == [tag |-> tag, text |-> text, siblings |-> siblings]

\* the tags that follow a heading
SibSet ==
    { Sib(<<"d", "i", "v">>, <<A(P_B), S(<<"2">>), S(<<"9", "0">>)>>),
      Sib(<<"d", "i", "v">>, <<A(P_B), S(<<"3">>)>>),
      Sib(<<"l", "i">>, <<A(P_B), A(P_G)>>),
      Sib(<<"u", "l">>, <<A(<<" ">>), S(<<"x", "7">>), A(<<" ", "G", "\n">>), S(<<"5", " ", "1">>)>>),
      Sib(<<"p">>, <<S(<<"4">>)>>),
      Sib(<<"h", "r">>, <<>>) }

ScorerSections ==
    { <<>>,
      <<Section("h2", Strijelci, <<Sib(<<"d", "i", "v">>, <<A(P_B), S(<<"2">>)>>)>>)>>,
      <<Section("div", <<" ">> \o Strijelci, <<Sib(<<"l", "i">>, <<A(P_B), A(P_G)>>)>>)>> }

CardSections ==
    { <<>>,
      <<Section("strong", Kartoni \o <<":">>,
                <<Sib(<<"d", "i", "v">>, <<A(P_B), S(<<"1">>)>>),
                  Sib(<<"h", "3">>, <<A(P_G)>>),
                  Sib(<<"d", "i", "v">>, <<A(P_X)>>)>>)>> }

MinuteSections ==
    { <<Section("h3", NastupiMinute, sibs)>> : sibs \in SeqsUpTo(SibSet, MaxSibs) }

CombinedSections ==
    { <<>>,
      <<Section("h4", StrijelciKartoni,
                <<Sib(<<"d", "i", "v">>, <<A(P_B), A(P_X), S(<<"8">>), S(<<"9">>)>>)>>)>> }

\* the sections in page order; the combined heading may come first
StatsPages ==
    { [EmptyPage EXCEPT !.headings = IF first THEN c \o g \o k \o m ELSE g \o k \o m \o c] :
        g \in ScorerSections, k \in CardSections, m \in MinuteSections,
        c \in CombinedSections, first \in BOOLEAN }

InitStats ==
    \E doc \in StatsPages : StartComp(doc, "stats")

NextStats ==
    \/ StatsBegin
    \/ MergeStep
    \/ StatsReturn

SpecStats == InitStats /\ [][NextStats]_vars

StatFields == {"full_name", "goals", "minutes", "yellow_cards", "red_cards"}

\* the field of the player holds a value that is not null
HoldsValue(st, name, field) ==
    HasKey(st, name) /\ DictGet(st, name)[field] \notin {None, Absent}

\* C8: once a field of a player's record holds a non-null value, no later
\* merge step replaces it with null
C8_NeverBackToNull ==
    [][\A i \in 1..Len(stats) : \A field \in StatFields :
          HoldsValue(stats, stats[i].key, field)
              => HoldsValue(stats', stats[i].key, field)]_vars

\* a later section has merged into a record whose goals and minutes were
\* already set, reading neither of them itself
C8_Witness ==
    /\ pc = "merge"
    /\ \E i \in 1..Len(stats) :
          /\ stats[i].val.goals \notin {None, Absent}
          /\ stats[i].val.minutes \notin {None, Absent}
          /\ stats[i].val.yellow_cards # Absent
          /\ \E k \in 1..(Len(MergeList(soup, 1)) - Len(todo)) :
                /\ MergeList(soup, 1)[k].name = stats[i].key
                /\ MergeList(soup, 1)[k].heading_text = StrijelciKartoni
                /\ k > 3

(***************************************************************************)
(* CompetitionScraper.parse_competition_meta  (scraper.py 52-64)           *)
(***************************************************************************)
\* Tag.get_text(strip=True): the stripped strings joined with nothing
GetTextTight(frags) == Concat([i \in 1..Len(frags) |-> Strip(frags[i])])

\* \d{4}/\d{4} matches s at position p
SeasonAt(s, p) ==
    /\ p + 8 <= Len(s)
    /\ AllIn(s, p, p + 3, IsDigit)
    /\ s[p + 4] = "/"
    /\ AllIn(s, p + 5, p + 8, IsDigit)

SeasonSearch(s) == \E p \in 1..Len(s) : SeasonAt(s, p)

\* lines 60-63: the first string of the page with a season in it, stripped
SeasonLabel(doc) ==
    IF FirstIndex(doc.texts, SeasonSearch) = 0 THEN None
    ELSE Strip(doc.texts[FirstIndex(doc.texts, SeasonSearch)])

\* lines 54-58
CompetitionName(doc) ==
    IF doc.has_h1 THEN GetTextTight(doc.h1)
    ELSE IF doc.has_title THEN doc.title
    ELSE doc.base_url

ParseCompetitionMeta(doc) ==
    [name         |-> CompetitionName(doc),
     season_label |-> SeasonLabel(doc),
     url          |-> doc.base_url]

(***************************************************************************)
(* CompetitionScraper.parse_teams  (scraper.py 66-97)                      *)
(***************************************************************************)
\* the letter S with caron, one character
S_caron == "S^"

Klub == <<"/", "k", "l", "u", "b">>

\* line 80, re.I: the club prefixes in lower case, each followed by a blank
LinkPrefixes ==
    { <<"n", "k", " ">>, <<"h", "n", "k", " ">>, <<"o", "n", "k", " ">>,
      <<"b", S_caron, "k", " ">>, <<"g", "n", "k", " ">> }

\* line 80: the anchor looks like a link to a team
IsTeamLink(text, href) ==
    \/ Contains(ToLower(text), Klub)
    \/ \E pre \in LinkPrefixes : StartsWith(ToLower(text), pre)
    \/ Contains(href, Klub)

\* lines 85-86: the digits after the first "/klub/" that has a digit after it
HnsId(href) ==
    LET at(p) == /\ p + 6 <= Len(href)
                 /\ Slice(href, p, p + 4) = Klub
                 /\ href[p + 5] = "/"
                 /\ IsDigit(href[p + 6])
        first == IF \E p \in 1..Len(href) : at(p)
                 THEN CHOOSE p \in 1..Len(href) :
                         at(p) /\ \A q \in 1..(p - 1) : ~at(q)
                 ELSE 0
    IN  IF first = 0 THEN href
        ELSE Slice(href, first + 6, RunEnd(href, first + 6, IsDigit))

\* urllib.parse.urljoin, kept as the pair it is computed from
UrlJoin(base, href) == [base |-> base, href |-> href]

\* line 84
CrestOf(doc, a) ==
    IF a.img = None \/ a.img = <<>> THEN None ELSE UrlJoin(doc.base_url, a.img)

\* lines 75-87, one iteration: teams[text] = {...} for an anchor that looks
\* like a team link; the assignment replaces the value stored under text
AddAnchor(doc, sofar, a) ==
    IF Len(GetText(a.strings)) > 0 /\ IsTeamLink(GetText(a.strings), a.href)
    THEN DictSet(sofar, GetText(a.strings),
            [name   |-> GetText(a.strings),
             url    |-> UrlJoin(doc.base_url, a.href),
             crest  |-> CrestOf(doc, a),
             hns_id |-> HnsId(a.href)])
    ELSE sofar

\* lines 74-87: the anchors that carry an href, in page order
RECURSIVE TeamsFromAnchors(_, _, _)
TeamsFromAnchors(doc, sofar, k) ==
    IF k > Len(doc.anchors) THEN sofar
    ELSE TeamsFromAnchors(doc, AddAnchor(doc, sofar, doc.anchors[k]), k + 1)

\* line 93, re.match: a club prefix in capitals, then a word boundary
NamePrefixes ==
    { <<"N", "K">>, <<"H", "N", "K">>, <<"O", "N", "K">>,
      <<"B", S_caron, "K">>, <<"G", "N", "K">> }

LooksLikeTeam(txt) ==
    \E pre \in NamePrefixes :
        /\ StartsWith(txt, pre)
        /\ (Len(txt) = Len(pre) \/ ~IsWord(txt[Len(pre) + 1]))

\* the values of seq with repetitions left out, in order of first occurrence
RECURSIVE Dedup(_)
Dedup(seq) ==
    IF Len(seq) = 0 THEN <<>>
    ELSE LET front == Dedup(SubSeq(seq, 1, Len(seq) - 1))
         IN  IF \E i \in 1..Len(front) : front[i] = seq[Len(seq)]
             THEN front
             ELSE Append(front, seq[Len(seq)])

\* the permutation of seq numbered seed
RECURSIVE Permute(_, _)
Permute(seq, seed) ==
    IF Len(seq) = 0 THEN <<>>
    ELSE LET i == (seed % Len(seq)) + 1
         IN  <<seq[i]>>
             \o Permute(SubSeq(seq, 1, i - 1) \o SubSeq(seq, i + 1, Len(seq)),
                        seed \div Len(seq))

\* lines 90-95: iteration over the set built by the insertions; the order is
\* the one the interpreter's hash seed gives
SetOrder(inserted, seed) == Permute(Dedup(inserted), seed)

\* lines 91-94
CandidateTexts(doc) ==
    SelectSeq([i \in 1..Len(doc.tags) |-> GetText(doc.tags[i])], LooksLikeTeam)

RECURSIVE TeamsFromNames(_, _)
TeamsFromNames(sofar, names) ==
    IF Len(names) = 0 THEN sofar
    ELSE TeamsFromNames(
            DictSet(sofar, Head(names),
               [name |-> Head(names), url |-> None, crest |-> None, hns_id |-> None]),
            Tail(names))

\* list(teams.values())
DictValues(d) == [i \in 1..Len(d) |-> d[i].val]

ParseTeams(doc, seed) ==
    LET linked == TeamsFromAnchors(doc, <<>>, 1)
    IN  IF Len(linked) > 0 THEN DictValues(linked)
        ELSE DictValues(TeamsFromNames(<<>>, SetOrder(CandidateTexts(doc), seed)))

(***************************************************************************)
(* CompetitionScraper.parse_fixtures  (scraper.py 99-180)                  *)
(***************************************************************************)
\* \d{2}\.\d{2}\.\d{4} matches s at position p
DateAt(s, p) ==
    /\ p + 9 <= Len(s)
    /\ AllIn(s, p, p + 1, IsDigit) /\ s[p + 2] = "."
    /\ AllIn(s, p + 3, p + 4, IsDigit) /\ s[p + 5] = "."
    /\ AllIn(s, p + 6, p + 9, IsDigit)

\* line 110: \d{2}\.\d{2}\.\d{4}\.? found in s
DateSearch(s) == \E p \in 1..Len(s) : DateAt(s, p)

\* line 144: \d{2}\.\d{2}\.\d{4}\. found in s
DateDotSearch(s) ==
    \E p \in 1..Len(s) : DateAt(s, p) /\ p + 10 <= Len(s) /\ s[p + 10] = "."

\* positions of the colon and of the second number when \d+\s*:\s*\d+
\* matches s with its first number starting at p; <<>> when it does not
ScorePartsAt(s, p) ==
    IF p > Len(s) \/ ~IsDigit(s[p]) THEN <<>>
    ELSE LET e == RunEnd(s, p, IsDigit)
             c == RunEnd(s, e + 1, IsSpace) + 1
             d == RunEnd(s, c + 1, IsSpace) + 1
         IN  IF c <= Len(s) /\ s[c] = ":" /\ d <= Len(s) /\ IsDigit(s[d])
             THEN <<e, d>>
             ELSE <<>>

ScoreSearch(s) == \E p \in 1..Len(s) : ScorePartsAt(s, p) # <<>>

\* lines 126-128: the two numbers of the leftmost match
ScoreGroups(s) ==
    LET p == CHOOSE q \in 1..Len(s) :
                /\ ScorePartsAt(s, q) # <<>>
                /\ \A r \in 1..(q - 1) : ScorePartsAt(s, r) = <<>>
        m == ScorePartsAt(s, p)
    IN  <<ToInt(Slice(s, p, m[1])), ToInt(Slice(s, m[2], RunEnd(s, m[2], IsDigit)))>>

\* str.replace(".", "")
RemoveDots(s) == SelectSeq(s, LAMBDA c : c # ".")

(* dateutil.parser.parse(text, dayfirst=True, fuzzy=True), line 177, over    *)
(* texts made of digits, letters that spell no English date word, blanks   *)
(* and colons.  -1 stands for a field the text did not give.               *)
IsAlpha(c) == \E i \in 1..26 : c \in {Upper[i], Lower[i]}

\* the lexer: runs of digits, runs of letters, and single other characters
RECURSIVE Lex(_)
Lex(s) ==
    IF Len(s) = 0 THEN <<>>
    ELSE IF IsDigit(s[1])
    THEN <<Slice(s, 1, RunEnd(s, 1, IsDigit))>>
         \o Lex(Slice(s, RunEnd(s, 1, IsDigit) + 1, Len(s)))
    ELSE IF IsAlpha(s[1])
    THEN <<Slice(s, 1, RunEnd(s, 1, IsAlpha))>>
         \o Lex(Slice(s, RunEnd(s, 1, IsAlpha) + 1, Len(s)))
    ELSE IF IsSpace(s[1]) THEN <<SP>> \o Lex(Tail(s))
    ELSE <<<<s[1]>>>> \o Lex(Tail(s))

\* the value of a number token; every value above 9999 is out of range for
\* each field alike and is kept as 99999
NumVal(t) ==
    IF Len(t) - RunEnd(t, 1, LAMBDA c : c = "0") > 5 THEN 99999 ELSE ToInt(t)

NoFields ==
    [ymd |-> <<>>, has_year |-> FALSE, year_first |-> FALSE, century |-> FALSE,
     hour |-> -1, minute |-> -1, second |-> -1, bad |-> FALSE]

\* _ymd.append: a value that can only be a year is labelled as the year, and
\* a second year is an error
YmdAppend(st, val, is_year) ==
    IF is_year /\ st.has_year THEN [st EXCEPT !.bad = TRUE]
    ELSE [st EXCEPT !.ymd = Append(st.ymd, val),
                    !.has_year = st.has_year \/ is_year,
                    !.year_first = st.year_first \/ (is_year /\ Len(st.ymd) = 0),
                    !.century = st.century \/ is_year]

\* _parse_numeric_token for the token at i: the fields and the index of the
\* last token consumed
NumericToken(st, toks, i) ==
    LET t    == toks[i]
        n    == Len(t)
        last == i = Len(toks)
        num(a, b) == ToInt(Slice(t, a, b))
    IN  IF Len(st.ymd) = 3 /\ n \in {2, 4} /\ st.hour = -1
           /\ (last \/ toks[i + 1] # <<":">>)
        THEN [st |-> [st EXCEPT !.hour = num(1, 2),
                                !.minute = IF n = 4 THEN num(3, 4) ELSE st.minute],
              i |-> i]
        ELSE IF n = 6
        THEN [st |-> IF Len(st.ymd) = 0
                     THEN YmdAppend(YmdAppend(YmdAppend(st, num(1, 2), FALSE),
                                              num(3, 4), FALSE), num(5, 6), FALSE)
                     ELSE [st EXCEPT !.hour = num(1, 2), !.minute = num(3, 4),
                                     !.second = num(5, 6)],
              i |-> i]
        ELSE IF n \in {8, 12, 14}
        THEN [st |-> LET d == YmdAppend(YmdAppend(YmdAppend(st, num(1, 4), TRUE),
                                                  num(5, 6), FALSE), num(7, 8), FALSE)
                     IN  [d EXCEPT !.hour = IF n > 8 THEN num(9, 10) ELSE d.hour,
                                   !.minute = IF n > 8 THEN num(11, 12) ELSE d.minute,
                                   !.second = IF n > 12 THEN num(13, 14) ELSE d.second],
              i |-> i]
        ELSE IF i + 2 <= Len(toks) /\ toks[i + 1] = <<":">>
        THEN IF ~IsDigitStr(toks[i + 2])
             THEN [st |-> [st EXCEPT !.bad = TRUE], i |-> i]
             ELSE IF i + 4 <= Len(toks) /\ toks[i + 3] = <<":">>
             THEN [st |-> [st EXCEPT !.hour = NumVal(t), !.minute = NumVal(toks[i + 2]),
                                     !.second = IF IsDigitStr(toks[i + 4])
                                                THEN NumVal(toks[i + 4]) ELSE -1,
                                     !.bad = ~IsDigitStr(toks[i + 4])],
                   i |-> i + 4]
             ELSE [st |-> [st EXCEPT !.hour = NumVal(t), !.minute = NumVal(toks[i + 2]),
                                     !.second = -1],
                   i |-> i + 2]
        ELSE IF last \/ toks[i + 1] = SP
        THEN [st |-> YmdAppend(st, NumVal(t), NumVal(t) > 100), i |-> i + 1]
        ELSE IF NumVal(t) >= 1 /\ NumVal(t) <= 31
        THEN [st |-> YmdAppend(st, NumVal(t), FALSE), i |-> i]
        ELSE [st |-> st, i |-> i]

\* the loop of _parse: numbers are read, every other token is skipped
RECURSIVE ParseTokens(_, _, _)
ParseTokens(st, toks, i) ==
    IF i > Len(toks) \/ st.bad THEN st
    ELSE IF IsDigitStr(toks[i])
    THEN ParseTokens(NumericToken(st, toks, i).st, toks, NumericToken(st, toks, i).i + 1)
    ELSE ParseTokens(st, toks, i + 1)

\* _ymd.resolve_ymd with dayfirst: <<year, month, day>>, <<>> on an error
ResolveYmd(st) ==
    LET v == st.ymd
    IN  CASE Len(v) = 0 -> <<-1, -1, -1>>
          [] Len(v) = 1 -> IF st.has_year \/ v[1] > 31
                           THEN <<v[1], -1, -1>> ELSE <<-1, -1, v[1]>>
          [] Len(v) = 2 -> IF v[1] > 31 THEN <<v[1], v[2], -1>>
                           ELSE IF v[2] > 31 THEN <<v[2], v[1], -1>>
                           ELSE IF v[2] <= 12 THEN <<-1, v[2], v[1]>>
                           ELSE <<-1, v[1], v[2]>>
          [] Len(v) = 3 -> IF v[1] > 31 \/ st.year_first
                           THEN (IF v[3] <= 12 THEN <<v[1], v[3], v[2]>>
                                 ELSE <<v[1], v[2], v[3]>>)
                           ELSE IF v[1] > 12 \/ v[2] <= 12
                           THEN <<v[3], v[2], v[1]>>
                           ELSE <<v[3], v[1], v[2]>>
          [] OTHER -> <<>>

\* parserinfo.convertyear: a year without its century is put within fifty
\* years of the year the parser was created in
ConvertYear(y, century, year0) ==
    IF y < 0 \/ y >= 100 \/ century THEN y
    ELSE LET c == y + (year0 \div 100) * 100
         IN  IF c >= year0 + 50 THEN c - 100
             ELSE IF c < year0 - 50 THEN c + 100
             ELSE c

Or(v, default) == IF v = -1 THEN default ELSE v

\* _build_naive: the fields replace those of today at midnight; None where
\* parse raises (the text gives no field, or a field out of range)
BuildNaive(st, today, year0) ==
    LET r  == ResolveYmd(st)
        y  == Or(ConvertYear(r[1], st.century, year0), today[1])
        m  == Or(r[2], today[2])
        hh == Or(st.hour, 0)
        mi == Or(st.minute, 0)
        ss == Or(st.second, 0)
    IN  IF st.bad \/ r = <<>> THEN None
        ELSE IF r = <<-1, -1, -1>> /\ st.hour = -1 /\ st.minute = -1 /\ st.second = -1
        THEN None
        ELSE IF y < 1 \/ y > 9999 \/ m < 1 \/ m > 12 THEN None
        ELSE LET d == IF r[3] = -1
                      THEN (IF today[3] > DaysInMonth(y, m) THEN DaysInMonth(y, m)
                            ELSE today[3])
                      ELSE r[3]
             IN  IF d < 1 \/ d > DaysInMonth(y, m) \/ hh > 23 \/ mi > 59 \/ ss > 59
                 THEN None
                 ELSE <<y, m, d, hh, mi, ss>>

DateutilParse(text, today, year0) ==
    BuildNaive(ParseTokens(NoFields, Lex(text), 1), today, year0)

\* lines 166-180: the text is parsed without its dots; None on any exception
ParseDatetimeFromContext(text, today, year0) ==
    DateutilParse(Strip(RemoveDots(Strip(text))), today, year0)

SiblingLimit == 40

\* seq[:n]
FirstN(seq, n) == IF Len(seq) > n THEN SubSeq(seq, 1, n) ELSE seq

AnchorsOf(sib) == SelectSeq(sib.strings, LAMBDA x : x.anchor)

\* lines 122-123: a tag with two anchors and a score in its text
IsMatchRow(sib) ==
    /\ Len(sib.name) > 0
    /\ Len(AnchorsOf(sib)) >= 2
    /\ ScoreSearch(GetText(SibTexts(sib)))

\* lines 125-142
FixtureOf(sib, node, now) ==
    [date       |-> ParseDatetimeFromContext(node.text, now.today, now.year0),
     home       |-> Strip(AnchorsOf(sib)[1].text),
     away       |-> Strip(AnchorsOf(sib)[2].text),
     home_goals |-> IntVal(ScoreGroups(GetText(SibTexts(sib)))[1]),
     away_goals |-> IntVal(ScoreGroups(GetText(SibTexts(sib)))[2]),
     venue      |-> None,
     match_url  |-> None]

\* line 144: the text the stop test reads; a string sibling has a get_text
\* only in the newer releases of the parsing library
StopText(doc, sib) ==
    IF Len(sib.name) > 0 \/ doc.strings_have_get_text
    THEN Concat(SibTexts(sib))
    ELSE <<>>

\* lines 119-145: the fixtures after one date node
RECURSIVE FixturesAfter(_, _, _, _)
FixturesAfter(doc, node, sibs, now) ==
    IF Len(sibs) = 0 THEN <<>>
    ELSE (IF IsMatchRow(Head(sibs)) THEN <<FixtureOf(Head(sibs), node, now)>> ELSE <<>>)
         \o (IF DateDotSearch(StopText(doc, Head(sibs))) THEN <<>>
             ELSE FixturesAfter(doc, node, Tail(sibs), now))

FixturesOfNode(doc, node, now) ==
    IF DateSearch(node.text)
    THEN FixturesAfter(doc, node, FirstN(node.siblings, SiblingLimit), now)
    ELSE <<>>

\* lines 149-163: the fallback for one string with a score in it
FallbackFixture(node) ==
    IF ScoreSearch(node.text) /\ Len(node.anchors) >= 2
    THEN <<[date       |-> None,
            home       |-> Strip(node.anchors[1]),
            away       |-> Strip(node.anchors[2]),
            home_goals |-> IntVal(ScoreGroups(node.text)[1]),
            away_goals |-> IntVal(ScoreGroups(node.text)[2]),
            venue      |-> None,
            match_url  |-> None]>>
    ELSE <<>>

ParseFixtures(doc, now) ==
    LET main == Concat([i \in 1..Len(doc.dates) |-> FixturesOfNode(doc, doc.dates[i], now)])
    IN  IF Len(main) > 0 THEN main
        ELSE Concat([i \in 1..Len(doc.scores) |-> FallbackFixture(doc.scores[i])])

(***************************************************************************)
(* The extractors applied again and again to one parsed document           *)
(***************************************************************************)
RECURSIVE MergeAll(_, _)
MergeAll(st, merges) ==
    IF Len(merges) = 0 THEN st
    ELSE MergeAll(MergeOne(st, Head(merges)), Tail(merges))

\* parse_player_stats as one call
ParsePlayerStats(doc) == MergeAll(<<>>, MergeList(doc, 1))

\* parse_standings as one call
ParseStandings(doc) ==
    Concat([i \in 1..Len(doc.tables) |->
               IF IsStandingsTable(doc.tables[i])
               THEN TableRows(doc.tables[i].tbody) ELSE <<>>])

\* the lineups scrape_match builds from a document (lines 303-322)
LineupsOf(doc) ==
    IF IsError(ParseHeaderInfo(doc)) \/ Len(IterateTeamBlocks(doc)) = 0 THEN <<>>
    ELSE FillLineups(NewLineups(ParseHeaderInfo(doc)), ParseHeaderInfo(doc),
                     IterateTeamBlocks(doc))

\* the helpers of demo_scraper.py in the order scrape_match calls them
MatchOrder == <<"header", "datetime", "goals", "blocks", "players", "attach">>

\* the extractors of scraper.py in the order scrape_all calls them (39-43)
CompOrder == <<"meta", "teams", "fixtures", "standings", "stats">>

ExtractMatch(e, doc) ==
    CASE e = "header"   -> ParseHeaderInfo(doc)
      [] e = "datetime" -> ParseDatetimeAndVenue(doc)
      [] e = "goals"    -> ParseGoalsBlock(doc)
      [] e = "blocks"   -> IterateTeamBlocks(doc)
      [] e = "players"  -> [i \in 1..Len(IterateTeamBlocks(doc)) |->
                               ParsePlayersFromTeamBlock(IterateTeamBlocks(doc)[i])]

ExtractComp(e, doc, now) ==
    CASE e = "meta"      -> ParseCompetitionMeta(doc)
      [] e = "teams"     -> ParseTeams(doc, now.hash_seed)
      [] e = "fixtures"  -> ParseFixtures(doc, now)
      [] e = "standings" -> ParseStandings(doc)
      [] e = "stats"     -> ParsePlayerStats(doc)

Returned(e, value) == [runs EXCEPT ![e] = Append(@, value)]

\* a helper of demo_scraper.py that only reads the document
CallMatchExtractor ==
    /\ pc = "again"
    /\ todo # <<>>
    /\ Head(todo) \in {"header", "datetime", "goals", "blocks", "players"}
    /\ runs' = Returned(Head(todo), ExtractMatch(Head(todo), soup))
    /\ todo' = Tail(todo)
    /\ UNCHANGED <<teams, fixtures, players>>
    /\ UNCHANGED <<pc, inp, soup, header, venue, city, date_time, candidates,
                   last_name, goals, team_blocks, lineups, result, standings,
                   stats, env>>

\* _attach_goal_teams writes the teams into the goal list it is given
CallAttach ==
    /\ pc = "again"
    /\ todo # <<>>
    /\ Head(todo) = "attach"
    /\ goals' = AttachGoalTeams(goals, lineups)
    /\ runs' = Returned("attach", AttachGoalTeams(goals, lineups))
    /\ todo' = Tail(todo)
    /\ UNCHANGED <<teams, fixtures, players>>
    /\ UNCHANGED <<pc, inp, soup, header, venue, city, date_time, candidates,
                   last_name, team_blocks, lineups, result, standings, stats,
                   env>>

\* an extractor of CompetitionScraper
CallCompExtractor ==
    /\ pc = "again"
    /\ todo # <<>>
    /\ Head(todo) \in {"meta", "teams", "fixtures", "standings", "stats"}
    /\ runs' = Returned(Head(todo), ExtractComp(Head(todo), soup, env))
    /\ todo' = Tail(todo)
    /\ UNCHANGED <<teams, fixtures, players>>
    /\ UNCHANGED <<pc, inp, soup, header, venue, city, date_time, candidates,
                   last_name, goals, team_blocks, lineups, result, standings,
                   stats, env>>

MaxDays == 1

NextDay(day) ==
    IF day[3] < DaysInMonth(day[1], day[2]) THEN <<day[1], day[2], day[3] + 1>>
    ELSE IF day[2] < 12 THEN <<day[1], day[2] + 1, 1>>
    ELSE <<day[1] + 1, 1, 1>>

\* the process runs past midnight
Midnight ==
    /\ pc = "again"
    /\ env.today[3] < FirstDay[3] + MaxDays
    /\ env' = [env EXCEPT !.today = NextDay(@)]
    /\ UNCHANGED <<teams, fixtures, players>>
    /\ UNCHANGED <<pc, inp, soup, header, venue, city, date_time, candidates,
                   last_name, goals, team_blocks, lineups, result, todo,
                   standings, stats, runs>>

MaxRuns == 2

MaxSeed == 2

RECURSIVE Repeat(_, _)
Repeat(seq, n) == IF n = 0 THEN <<>> ELSE seq \o Repeat(seq, n - 1)

\* date strings of a fixtures list and the rows that follow them
D_2025 == <<"2", "8", ".", "0", "9", ".", "2", "0", "2", "5", ".", " ", "1", "6", ":", "0", "0">>

D_1012 == <<"1", "0", ".", "1", "0", ".", "1", "0", "1", "2", ".">>

D_glued == <<"1", "2", "8", ".", "0", "9", ".", "2", "0", "2", "5", "x", " ", "1", "6", ":", "0", "0">>

Div == <<"d", "i", "v">>

MatchRow(x, y) == Sib(Div, <<A(N_a), S(Dec(x) \o <<" ", ":">> \o Dec(y)), A(N_bc), A(P_X)>>)

DateNode(text, siblings) == [text |-> text, siblings |-> siblings]

FixtureLists ==
    { <<>>,
      <<DateNode(D_2025, <<MatchRow(2, 1), Sib(<<>>, <<S(D_1012)>>), MatchRow(0, 0)>>),
        DateNode(D_1012, <<Sib(Div, <<A(N_a), S(<<"1", ":", "1">>)>>), MatchRow(10, 3)>>)>>,
      <<DateNode(D_glued, <<MatchRow(2, 1)>>)>>,
      <<DateNode(<<"x">>, <<MatchRow(2, 1)>>)>> }

NK == <<"N", "K">>

TeamLists ==
    { [anchors |-> <<>>, tags |-> <<>>],
      [anchors |-> <<[href |-> <<"/", "k", "l", "u", "b", "/", "1", "2", "/", "x">>,
                      strings |-> <<N_a>>, img |-> <<"c">>],
                     [href |-> <<"/", "x">>, strings |-> <<<<"n", "k", " ">>, N_bc>>, img |-> None],
                     [href |-> <<"/", "y">>, strings |-> <<N_a>>, img |-> None],
                     [href |-> <<"/", "k", "l", "u", "b">>, strings |-> <<N_a>>, img |-> <<>>]>>,
       tags |-> <<<<NK \o SP \o N_a>>>>],
      [anchors |-> <<[href |-> <<"/", "x">>, strings |-> <<N_a>>, img |-> None]>>,
       tags |-> <<<<NK, N_a>>, <<<<"H">> \o NK \o <<"-">> \o N_a>>, <<NK \o N_a>>,
                  <<<<" ">> \o NK \o SP \o N_a>>, <<<<"G">> \o NK>>>>] }

MetaLists ==
    { [has_h1 |-> TRUE, h1 |-> <<<<" ", "1", ".">>, <<"Z", "N", "L", "\n">>>>,
       has_title |-> TRUE, title |-> N_a,
       texts |-> <<N_a, <<" ", "2", "0", "2", "5", "/", "2", "0", "2", "6", " ">>>>],
      [has_h1 |-> FALSE, h1 |-> <<>>, has_title |-> TRUE, title |-> N_a,
       texts |-> <<<<"2", "0", "2", "5", "/", "2", "6">>>>],
      [has_h1 |-> FALSE, h1 |-> <<>>, has_title |-> FALSE, title |-> None,
       texts |-> <<>>] }

AgainCompPages ==
    { [EmptyPage EXCEPT
          !.has_h1 = m.has_h1, !.h1 = m.h1, !.has_title = m.has_title,
          !.title = m.title, !.texts = m.texts,
          !.anchors = t.anchors, !.tags = t.tags,
          !.dates = f,
          !.scores = <<[text |-> <<"3", ":", "0">>, anchors |-> <<N_a, N_bc>>],
                       [text |-> <<"3", ":", "1">>, anchors |-> <<N_a>>]>>,
          !.strings_have_get_text = g,
          !.tables = CHOOSE x \in SecondTables : x # <<>>,
          !.headings = CHOOSE x \in CardSections : x # <<>>] :
        m \in MetaLists, t \in TeamLists, f \in FixtureLists, g \in BOOLEAN }

AgainMatchPages ==
    { page \in MatchPages :
        /\ page.head \in {Heading("ok", N_a, N_bc, 4, 3, N_c12),
                          Heading("no_dash", N_a, N_bc, 4, 3, N_a)}
        /\ page.date.kind # "nodot" }

\* a parsed document, and the extractors about to be applied MaxRuns times
AgainFrom(content, doc, order, seed) ==
    /\ inp = content
    /\ soup = doc
    /\ pc = "again"
    /\ header = Unset
    /\ venue = Unset /\ city = Unset /\ date_time = Unset
    /\ candidates = <<>> /\ last_name = None
    /\ goals = IF order = MatchOrder THEN ParseGoalsBlock(doc) ELSE <<>>
    /\ team_blocks = <<>>
    /\ lineups = IF order = MatchOrder THEN LineupsOf(doc) ELSE <<>>
    /\ result = Unset
    /\ todo = Repeat(order, MaxRuns)
    /\ standings = <<>> /\ stats = <<>>
    /\ env = StartEnv(seed)
    /\ teams = <<>> /\ fixtures = <<>> /\ players = <<>>
    /\ runs = [e \in {order[k] : k \in 1..Len(order)} |-> <<>>]

\* (the helpers of demo_scraper.py build no set)
InitAgain ==
    \/ \E page \in AgainMatchPages :
          AgainFrom(page, RenderMatchPage(page), MatchOrder, 0)
    \/ \E doc \in AgainCompPages, seed \in 0..MaxSeed :
          AgainFrom(doc, doc, CompOrder, seed)

NextAgain ==
    \/ CallMatchExtractor
    \/ CallAttach
    \/ CallCompExtractor
    \/ Midnight

SpecAgain == InitAgain /\ [][NextAgain]_vars

\* C10: the applications of an extractor to one parsed document within one
\* process have all returned equal values
C10_Idempotent ==
    \A e \in DOMAIN runs : \A i, j \in 1..Len(runs[e]) : runs[e][i] = runs[e][j]

(***************************************************************************)
(* CompetitionScraper.parse_teams, statement by statement                  *)
(***************************************************************************)
\* parse_teams step by step.  lines 71-73
TeamsBegin ==
    /\ pc = "teams"
    /\ teams' = <<>>
    /\ todo' = soup.anchors
    /\ pc' = "anchors"
    /\ UNCHANGED <<inp, soup, header, venue, city, date_time, candidates,
                   last_name, goals, team_blocks, lineups, result, standings,
                   stats, env, runs, fixtures, players>>

\* lines 74-87: one anchor
TeamsAnchor ==
    /\ pc = "anchors"
    /\ todo # <<>>
    /\ teams' = AddAnchor(soup, teams, Head(todo))
    /\ todo' = Tail(todo)
    /\ UNCHANGED <<pc, inp, soup, header, venue, city, date_time, candidates,
                   last_name, goals, team_blocks, lineups, result, standings,
                   stats, env, runs, fixtures, players>>

\* lines 89-96: with no team from the links, the names found in the page
TeamsFallback ==
    /\ pc = "anchors"
    /\ todo = <<>>
    /\ teams' = IF Len(teams) = 0
                THEN TeamsFromNames(<<>>, SetOrder(CandidateTexts(soup), env.hash_seed))
                ELSE teams
    /\ pc' = "teams_return"
    /\ UNCHANGED <<inp, soup, header, venue, city, date_time, candidates,
                   last_name, goals, team_blocks, lineups, result, todo,
                   standings, stats, env, runs, fixtures, players>>

\* line 97
TeamsReturn ==
    /\ pc = "teams_return"
    /\ result' = DictValues(teams)
    /\ pc' = "done"
    /\ UNCHANGED <<inp, soup, header, venue, city, date_time, candidates,
                   last_name, goals, team_blocks, lineups, todo, standings,
                   stats, env, runs, teams, fixtures, players>>

MaxAnchors == 3

Link(href, strings, img) == [href |-> href, strings |-> strings, img |-> img]

\* <a href> elements: two links to club pages under one text, a link
\* recognised by its text, a link that is none, and a link without text
AnchorSet ==
    { Link(<<"/", "k", "l", "u", "b", "/", "1", "2", "/", "x">>, <<N_a>>, <<"c">>),
      Link(<<"/", "k", "l", "u", "b", "/", "7">>, <<<<" ">> \o N_a>>, None),
      Link(<<"/", "x">>, <<<<"n", "k", " ">>, N_bc>>, None),
      Link(<<"/", "y">>, <<N_a>>, None),
      Link(<<"/", "k", "l", "u", "b">>, <<<<" ">>>>, <<>>) }

TagLists ==
    { <<>>,
      <<<<NK, N_a>>, <<<<"H">> \o NK \o <<"-">> \o N_a>>, <<NK \o N_a>>, <<NK, N_a>>>> }

TeamPages ==
    { [EmptyPage EXCEPT !.anchors = a, !.tags = t] :
        a \in SeqsUpTo(AnchorSet, MaxAnchors), t \in TagLists }

InitTeams ==
    \E doc \in TeamPages, seed \in 0..MaxSeed :
        StartCompWith(doc, "teams", seed)

NextTeams ==
    \/ TeamsBegin
    \/ TeamsAnchor
    \/ TeamsFallback
    \/ TeamsReturn

SpecTeams == InitTeams /\ [][NextTeams]_vars

\* the anchors of the page that parse_teams takes for team links
IsCandidateLink(doc, k) ==
    /\ Len(GetText(doc.anchors[k].strings)) > 0
    /\ IsTeamLink(GetText(doc.anchors[k].strings), doc.anchors[k].href)

\* the first candidate link of the page with this visible text, 0 without one
FirstLink(doc, name) ==
    IF \E k \in 1..Len(doc.anchors) :
          IsCandidateLink(doc, k) /\ GetText(doc.anchors[k].strings) = name
    THEN CHOOSE k \in 1..Len(doc.anchors) :
            /\ IsCandidateLink(doc, k) /\ GetText(doc.anchors[k].strings) = name
            /\ \A j \in 1..(k - 1) :
                  ~(IsCandidateLink(doc, j) /\ GetText(doc.anchors[j].strings) = name)
    ELSE 0

CarriesLink(team, doc, k) ==
    /\ team.url = UrlJoin(doc.base_url, doc.anchors[k].href)
    /\ team.crest = CrestOf(doc, doc.anchors[k])
    /\ team.hns_id = HnsId(doc.anchors[k].href)

\* C11: the team returned for a visible name carries the url, crest and id of
\* the first candidate link of the page with that text
C11_FirstOccurrenceWins ==
    pc = "done" =>
        \A i \in 1..Len(result) :
            FirstLink(soup, result[i].name) # 0 =>
                CarriesLink(result[i], soup, FirstLink(soup, result[i].name))

(***************************************************************************)
(* CompetitionScraper.parse_fixtures, statement by statement               *)
(***************************************************************************)
\* lines 110-119: the date nodes of the page, each with the siblings of its
\* parent the loop will visit and the place k of the next one
ScanOf(node) ==
    [text |-> node.text, siblings |-> FirstN(node.siblings, SiblingLimit), k |-> 1]

FixturesBegin ==
    /\ pc = "fixtures"
    /\ fixtures' = <<>>
    /\ todo' = [i \in 1..Len(SelectSeq(soup.dates, LAMBDA n : DateSearch(n.text))) |->
                    ScanOf(SelectSeq(soup.dates, LAMBDA n : DateSearch(n.text))[i])]
    /\ pc' = "dates"
    /\ UNCHANGED <<inp, soup, header, venue, city, date_time, candidates,
                   last_name, goals, team_blocks, lineups, result, standings,
                   stats, env, runs, teams, players>>

\* lines 120-145, one sibling: the row test and the append, then the stop test
ScanSibling(doc, scan, sib) ==
    [scan EXCEPT !.k = IF DateDotSearch(StopText(doc, sib))
                       THEN Len(scan.siblings) + 1
                       ELSE scan.k + 1]

FixturesSibling ==
    /\ pc = "dates"
    /\ todo # <<>>
    /\ Head(todo).k <= Len(Head(todo).siblings)
    /\ \E sib \in {Head(todo).siblings[Head(todo).k]} :
          /\ fixtures' = IF IsMatchRow(sib)
                         THEN Append(fixtures, FixtureOf(sib, Head(todo), env))
                         ELSE fixtures
          /\ todo' = <<ScanSibling(soup, Head(todo), sib)>> \o Tail(todo)
    /\ UNCHANGED <<pc, inp, soup, header, venue, city, date_time, candidates,
                   last_name, goals, team_blocks, lineups, result, standings,
                   stats, env, runs, teams, players>>

\* line 112: the next date node
FixturesNextNode ==
    /\ pc = "dates"
    /\ todo # <<>>
    /\ Head(todo).k > Len(Head(todo).siblings)
    /\ todo' = Tail(todo)
    /\ UNCHANGED <<pc, inp, soup, header, venue, city, date_time, candidates,
                   last_name, goals, team_blocks, lineups, result, standings,
                   stats, env, runs, teams, fixtures, players>>

\* lines 147-164
FixturesReturn ==
    /\ pc = "dates"
    /\ todo = <<>>
    /\ fixtures' = IF Len(fixtures) > 0 THEN fixtures
                   ELSE Concat([i \in 1..Len(soup.scores) |->
                                   FallbackFixture(soup.scores[i])])
    /\ result' = fixtures'
    /\ pc' = "done"
    /\ UNCHANGED <<inp, soup, header, venue, city, date_time, candidates,
                   last_name, goals, team_blocks, lineups, todo, standings,
                   stats, env, runs, teams, players>>

MaxKids == 4

D_dot == <<"2", "8", ".", "0", "9", ".", "2", "0", "2", "5", ".">>

D_nodot == <<"0", "5", ".", "1", "0", ".", "2", "0", "2", "5", " ", "1", "6", ":", "0", "0">>

\* the children of the element that holds the fixture list: a date line with
\* the period after the year and one without, a match row, a match row with
\* its date in it, a date as a bare string between two tags, and another tag
KidSet ==
    { Sib(Div, <<S(D_dot)>>),
      Sib(Div, <<S(D_nodot)>>),
      MatchRow(2, 1),
      Sib(Div, <<S(D_dot), A(N_a), S(<<"0", ":", "3">>), A(N_bc)>>),
      Sib(<<>>, <<S(D_dot)>>),
      Sib(Div, <<S(P_X)>>) }

\* soup.find_all(text=...) over these children: a string of a tag child has
\* the tag for parent, whose next siblings are the children after it; a bare
\* string has the list element for parent, which nothing follows
DateNodesAt(kids, i) ==
    IF Len(kids[i].name) > 0
    THEN [j \in 1..Len(SelectSeq(kids[i].strings, LAMBDA x : ~x.anchor)) |->
             DateNode(SelectSeq(kids[i].strings, LAMBDA x : ~x.anchor)[j].text,
                      SubSeq(kids, i + 1, Len(kids)))]
    ELSE [j \in 1..Len(kids[i].strings) |-> DateNode(kids[i].strings[j].text, <<>>)]

DateNodesOf(kids) == Concat([i \in 1..Len(kids) |-> DateNodesAt(kids, i)])

\* a date line followed by more siblings than the scan visits
LongList ==
    <<Sib(Div, <<S(D_dot)>>)>> \o Repeat(<<Sib(Div, <<S(P_X)>>)>>, SiblingLimit)
        \o <<MatchRow(2, 1)>>

FixturePages ==
    { [EmptyPage EXCEPT !.dates = DateNodesOf(kids),
                        !.scores = sc,
                        !.strings_have_get_text = g] :
        kids \in SeqsUpTo(KidSet, MaxKids) \cup {LongList},
        sc \in {<<>>, <<[text |-> <<"3", ":", "0">>, anchors |-> <<N_a, N_bc>>]>>},
        g \in BOOLEAN }

InitFixtures ==
    \E doc \in FixturePages : StartComp(doc, "fixtures")

NextFixtures ==
    \/ FixturesBegin
    \/ FixturesSibling
    \/ FixturesNextNode
    \/ FixturesReturn

SpecFixtures == InitFixtures /\ [][NextFixtures]_vars

\* a sibling with text of the grammar that selects the date nodes
HasDateText(sib) ==
    \E j \in 1..Len(sib.strings) : DateSearch(sib.strings[j].text)

\* C12: a sibling is accepted as a fixture row of a date node only among the
\* first 40 siblings, and only when neither it nor a sibling before it
\* holds text of the date grammar
C12_ScanStopsAtNextDate ==
    [][pc = "dates" /\ todo # <<>> /\ Len(fixtures') > Len(fixtures)
          => /\ Head(todo).k <= SiblingLimit
             /\ \A j \in 1..Head(todo).k : ~HasDateText(Head(todo).siblings[j])]_vars

(***************************************************************************)
(* _parse_players_from_team_block  (demo_scraper.py 206-282) over the      *)
(* elements of the document in document order.  An element is a tag or a   *)
(* string with its depth in the tree; the element before a tag in this     *)
(* order is its previous_element.                                          *)
(***************************************************************************)
\* the last element of the subtree of element i
SubtreeEnd(els, i) ==
    CHOOSE j \in i..Len(els) :
        /\ \A m \in (i + 1)..j : els[m].depth > els[i].depth
        /\ (j = Len(els) \/ els[j + 1].depth <= els[i].depth)

\* increasing sequence of the members of a set of indices
RECURSIVE Sorted(_)
Sorted(set) ==
    IF set = {} THEN <<>>
    ELSE <<CHOOSE x \in set : \A y \in set : x <= y>>
         \o Sorted(set \ {CHOOSE x \in set : \A y \in set : x <= y})

Descendants(els, i) == Sorted((i + 1)..SubtreeEnd(els, i))

\* element.parent
ParentOf(els, i) ==
    CHOOSE j \in 1..(i - 1) :
        /\ els[j].depth = els[i].depth - 1
        /\ \A m \in (j + 1)..(i - 1) : els[m].depth >= els[i].depth

\* tag.find_all("h3")
FindAllH3(els, i) ==
    SelectSeq(Descendants(els, i), LAMBDA j : els[j].tag /\ els[j].name = "h3")

\* the strings inside a tag, in order
StringsIn(els, i) ==
    [k \in 1..Len(SelectSeq(Descendants(els, i), LAMBDA j : ~els[j].tag)) |->
        els[SelectSeq(Descendants(els, i), LAMBDA j : ~els[j].tag)[k]].text]

\* h3.find_all_previous(string=True, limit=3): nearest first
Nearest(idx, limit) ==
    [k \in 1..(IF Len(idx) > limit THEN limit ELSE Len(idx)) |-> idx[Len(idx) + 1 - k]]

FindAllPreviousStrings(els, h, limit) ==
    Nearest(SelectSeq(Sorted(1..(h - 1)), LAMBDA j : ~els[j].tag), limit)

\* reversed(seq)
Reversed(seq) == [k \in 1..Len(seq) |-> seq[Len(seq) + 1 - k]]

\* lines 233-237: the first of the texts, stripped, that is a number
FirstNumber(texts) ==
    IF \E k \in 1..Len(texts) : IsDigitStr(Strip(texts[k]))
    THEN IntVal(ToInt(Strip(texts[CHOOSE k \in 1..Len(texts) :
                                     /\ IsDigitStr(Strip(texts[k]))
                                     /\ \A m \in 1..(k - 1) :
                                           ~IsDigitStr(Strip(texts[m]))])))
    ELSE None

PrevLimit == 3

TextsAt(els, idx) == [k \in 1..Len(idx) |-> els[idx[k]].text]

\* lines 229-237
ShirtNumber(els, h) ==
    FirstNumber(TextsAt(els, Reversed(FindAllPreviousStrings(els, h, PrevLimit))))

\* the siblings after element i, in order
NextSiblings(els, i) ==
    SelectSeq(Sorted((i + 1)..SubtreeEnd(els, ParentOf(els, i))),
              LAMBDA j : els[j].depth = els[i].depth)

\* lines 240-248: the text of the first tag after the heading, among its
\* siblings, that has text
PositionOf(els, h) ==
    Apply(LAMBDA tags : IF Len(tags) = 0 THEN None
                        ELSE GetText(StringsIn(els, tags[1])),
          SelectSeq(NextSiblings(els, h),
                    LAMBDA j : els[j].tag /\ Len(GetTextTight(StringsIn(els, j))) > 0))

\* lines 254-260: the minute tokens in the tags that follow the heading, up
\* to the next heading
MinuteEvents(els, sibs) ==
    Apply(LAMBDA toks : [k \in 1..Len(toks) |-> [minute |-> MinuteOf(toks[k]),
                                                  raw |-> toks[k]]],
          SelectSeq(Concat([k \in 1..Len(sibs) |->
                       IF els[sibs[k]].tag
                       THEN StrippedStrings([strings |-> StringsIn(els, sibs[k])])
                       ELSE <<>>]),
                    IsMinuteToken))

UpToNextH3(els, sibs) ==
    IF \E k \in 1..Len(sibs) : els[sibs[k]].tag /\ els[sibs[k]].name = "h3"
    THEN SubSeq(sibs, 1, (CHOOSE k \in 1..Len(sibs) :
                            /\ els[sibs[k]].tag /\ els[sibs[k]].name = "h3"
                            /\ \A m \in 1..(k - 1) :
                                  ~(els[sibs[m]].tag /\ els[sibs[m]].name = "h3")) - 1)
    ELSE sibs

EventsOf(els, h) == MinuteEvents(els, UpToNextH3(els, NextSiblings(els, h)))

C_caron == "c^"

\* "Pricuvni igraci", with its two carons
BenchText ==
    <<"P", "r", "i", C_caron, "u", "v", "n", "i", " ", "i", "g", "r", "a", C_caron, "i">>

\* line 265: the first string of the block with the marker in it, 0 without
BenchMarker(els, root) ==
    Apply(LAMBDA hits : IF Len(hits) = 0 THEN 0 ELSE hits[1],
          SelectSeq(Descendants(els, root),
                    LAMBDA j : ~els[j].tag /\ Contains(els[j].text, BenchText)))

\* Tag.__eq__: the same name and equal contents
Shape(els, i) ==
    [k \in 1..(SubtreeEnd(els, i) - i + 1) |->
        [els[i + k - 1] EXCEPT !.depth = @ - els[i].depth]]

\* line 268: tag in h3.find_all_previous()
InPrevious(els, c, h) ==
    \E j \in 1..(h - 1) : els[j].tag /\ Shape(els, j) = Shape(els, c)

\* lines 264-269
IsStarting(els, root, h) ==
    ~(/\ BenchMarker(els, root) # 0
      /\ Len(FindAllH3(els, ParentOf(els, BenchMarker(els, root)))) > 0
      /\ InPrevious(els, ParentOf(els, BenchMarker(els, root)), h))

\* lines 224-227 and 271-280: the PlayerInfo of the heading h
PlayerInfoOf(els, root, h) ==
    [name         |-> Strip(RemoveCaptainMark(GetText(StringsIn(els, h)))),
     shirt_number |-> ShirtNumber(els, h),
     position     |-> PositionOf(els, h),
     is_captain   |-> Contains(GetText(StringsIn(els, h)), CaptainMark),
     is_starting  |-> IsStarting(els, root, h),
     events       |-> EventsOf(els, h)]

\* lines 221-223
PlayersBegin ==
    /\ pc = "players"
    /\ players' = <<>>
    /\ todo' = FindAllH3(soup.els, soup.block)
    /\ pc' = "h3"
    /\ UNCHANGED <<inp, soup, header, venue, city, date_time, candidates,
                   last_name, goals, team_blocks, lineups, result, standings,
                   stats, env, runs, teams, fixtures>>

\* lines 224-280: one heading
PlayerStep ==
    /\ pc = "h3"
    /\ todo # <<>>
    /\ players' = Append(players, PlayerInfoOf(soup.els, soup.block, Head(todo)))
    /\ todo' = Tail(todo)
    /\ UNCHANGED <<pc, inp, soup, header, venue, city, date_time, candidates,
                   last_name, goals, team_blocks, lineups, result, standings,
                   stats, env, runs, teams, fixtures>>

\* line 282
PlayersReturn ==
    /\ pc = "h3"
    /\ todo = <<>>
    /\ result' = players
    /\ pc' = "done"
    /\ UNCHANGED <<inp, soup, header, venue, city, date_time, candidates,
                   last_name, goals, team_blocks, lineups, todo, standings,
                   stats, env, runs, teams, fixtures, players>>

MaxItems == 4

TagEl(name) == <<[tag |-> TRUE, name |-> name, text |-> <<>>, depth |-> 0]>>

StrEl(text) == <<[tag |-> FALSE, name |-> "", text |-> text, depth |-> 0]>>

\* the elements of a fragment one level down
Inside(frag) == [k \in 1..Len(frag) |-> [frag[k] EXCEPT !.depth = @ + 1]]

Wrap(name, frag) == TagEl(name) \o Inside(frag)

\* what a team block is made of: a number and a line break as bare strings,
\* a number, a minute and nothing in a <span>, player headings with and
\* without a link, the reserves marker in a heading of its own and as a bare
\* string, and a <div> that holds the marker and a player heading
ItemSet ==
    { StrEl(<<"7">>),
      StrEl(<<"\n">>),
      Wrap("span", StrEl(<<" ", "1", "0">>)),
      Wrap("span", StrEl(<<"1", "4", "'">>)),
      Wrap("span", <<>>),
      Wrap("h3", StrEl(P_BC)),
      Wrap("h3", Wrap("a", StrEl(P_G))),
      Wrap("h4", StrEl(BenchText)),
      StrEl(<<"\n">> \o BenchText \o <<":">>),
      Wrap("div", Wrap("h3", StrEl(P_B)) \o StrEl(BenchText)) }

\* <body>: a string, then the team block, the parent of the team's name
BlockPage(items) ==
    [els |-> Wrap("body", StrEl(<<"9">>) \o Wrap("div", StrEl(N_a) \o Concat(items))),
     block |-> 3]

BlockPages == { BlockPage(items) : items \in SeqsUpTo(ItemSet, MaxItems) }

InitPlayers ==
    \E doc \in BlockPages :
        /\ Start(doc, "players")
        /\ soup = doc

NextPlayers ==
    \/ PlayersBegin
    \/ PlayerStep
    \/ PlayersReturn

SpecPlayers == InitPlayers /\ [][NextPlayers]_vars

\* the heading of the i-th player of the list
HeadingOf(i) == FindAllH3(soup.els, soup.block)[i]

\* the parent of the reserves marker of the block, 0 without a marker
MarkerContainer ==
    IF BenchMarker(soup.els, soup.block) = 0 THEN 0
    ELSE ParentOf(soup.els, BenchMarker(soup.els, soup.block))

\* C13: with a reserves marker in the block a player whose heading comes
\* before the marker's container is starting and one whose heading comes
\* after it is not; without a marker every player is starting
C13_StartingByMarker ==
    pc \in {"h3", "done"} =>
        \A i \in 1..Len(players) :
            /\ MarkerContainer = 0 => players[i].is_starting
            /\ MarkerContainer # 0 /\ HeadingOf(i) < MarkerContainer
                  => players[i].is_starting
            /\ MarkerContainer # 0 /\ HeadingOf(i) > MarkerContainer
                  => ~players[i].is_starting

\* C14: the shirt number is the number in the nearest of the three strings
\* before the heading that is a number, None when none of the three is one
C14_NearestNumber ==
    pc \in {"h3", "done"} =>
        \A i \in 1..Len(players) :
            players[i].shirt_number =
                FirstNumber(TextsAt(soup.els,
                    FindAllPreviousStrings(soup.els, HeadingOf(i), PrevLimit)))
====
